---- MODULE Spec2Model ----
(***************************************************************************)
(* Vantage task engine (src/taskEngine.js): the template catalog, the      *)
(* context generator, the task factory, the follow-up spawner and the      *)
(* template matcher, as operators over an explicit environment (the random *)
(* source and the clock), and the state machine of the backlog they feed;  *)
(* the popup's completion handler (src/popup.js, handleCompleteTask) with  *)
(* the storage layer it awaits (StorageManager.recordCompletion).          *)
(*                                                                         *)
(* Strings the engine takes apart (title patterns, fill-in values, titles) *)
(* are sequences of chunks: a chunk is a maximal run of word characters    *)
(* [A-Za-z0-9_], a brace, or a run of other characters.  The string is the *)
(* concatenation of its chunks.  The em dash of the source is written --.  *)
(***************************************************************************)
EXTENDS Integers, Sequences, FiniteSets, TLC

VARIABLES
  handed,    \* the Task last handed to spawnFollowUps (the title and category
             \* handed to findBestMatchingTemplate), or NoTask
  returned,  \* the Task[] the last engine call returned (the matcher's
             \* template, as the only element)
  drew,      \* the count and, per slot, the tier, roll and definition of that call
  phase,     \* what the last engine call was and how it ended: "start" |
             \* "backlog" | "spawned" | "matched" | "created" | "found" |
             \* "filled" | "threw"
  depth,     \* number of completions since the initial backlog
  clock,     \* Date.now() in milliseconds
  lineage,   \* the tiers that produced handed and its ancestors (0: createTask
             \* for the initial backlog), oldest first
  origin,    \* the nearest ancestor of handed, or handed itself, that no
             \* Tier 1 or Tier 2 produced: where its context was built
  replayed,  \* a second run of the last spawnFollowUps call, on the same task
             \* and draws: the Task[] it returned and how much later it began
  heap,      \* the objects a caller of spawnFollowUps holds: the completed
             \* task, the returned tasks and the context object each refers to
  tasks,     \* popup.js `tasks`: the task objects of the list, in order
  stats,     \* popup.js `stats`: the statistics last shown
  storage,   \* chrome.storage.local: the values under vantage_tasks and
             \* vantage_stats
  taskList,  \* $taskList: per rendered card, whether its checkbox has the
             \* class "completing"
  handlers,  \* the calls of handleCompleteTask so far, in click order: their
             \* closure and the await each one is suspended at
  pending,   \* the chrome.storage.local requests not yet answered, oldest first
  today,     \* the calendar day new Date() falls on
  calls      \* the calls of TaskEngine.spawnFollowUps made by the handlers:
             \* the completed task's id and the ids of the tasks returned

\* The state of the engine calls and of the chains they form.
engineVars == <<handed, returned, drew, phase, depth, clock, lineage, origin, replayed>>

\* The state of the popup: its module variables, the DOM, the storage.
popupVars == <<tasks, stats, storage, taskList, handlers, pending, today, calls>>

vars == <<engineVars, heap, popupVars>>

(* ------------------------------ bounds --------------------------------- *)

\* Math.random() returns one of 0/Grid, 1/Grid, ..., (Grid-1)/Grid.
Grid == 20

\* The random source of a call is seeded with three draws and repeats them,
\* each round shifted by Stride (mod Grid).
Stride == 7

\* Milliseconds that pass between two reads of the clock within one call.
MaxDt == 1

\* Number of seeds tried per call along completion chains.
NSeeds == 5

\* Longest chain of completions followed from the initial backlog.
MaxDepth == 2

(* ------------------------------ values --------------------------------- *)

\* JavaScript's null / undefined where a string is expected.
null == "null"

\* null where an object is expected (a task, a template, an id, a date).
NoTask == <<>>
NoTemplate == <<>>
NoId == <<>>
NoDate == <<>>
NoDef == <<>>
NoSpawn == <<>>

\* Milliseconds in a day (Date.prototype.setDate moves whole days).
DayMs == 86400000

\* A TypeError thrown instead of a value returned.
TypeError == [throws |-> "TypeError"]

\* Properties every object literal inherits from Object.prototype, with the
\* length of the function each one holds.
ObjectPrototype == [constructor |-> 1, hasOwnProperty |-> 1, toString |-> 0, valueOf |-> 0]

(* ------------------------------ catalog -------------------------------- *)

CATEGORIES ==
  << [id |-> "marketing",   label |-> "Marketing"],
     [id |-> "sales",       label |-> "Sales"],
     [id |-> "operations",  label |-> "Operations"],
     [id |-> "hr",          label |-> "HR"],
     [id |-> "finance",     label |-> "Finance"],
     [id |-> "product",     label |-> "Product"],
     [id |-> "engineering", label |-> "Engineering"],
     [id |-> "support",     label |-> "Support"] >>

PRIORITIES ==
  << [id |-> "critical", label |-> "Critical", weight |-> 4],
     [id |-> "high",     label |-> "High",     weight |-> 3],
     [id |-> "medium",   label |-> "Medium",   weight |-> 2],
     [id |-> "low",      label |-> "Low",      weight |-> 1] >>

FILL_DATA ==
  [company |-> <<<<"Acme", " ", "Corp">>,
             <<"Globex", " ", "Inc">>,
             <<"Initech">>,
             <<"Umbrella", " ", "Co">>,
             <<"Stark", " ", "Industries">>,
             <<"Wayne", " ", "Enterprises">>,
             <<"Hooli">>,
             <<"Pied", " ", "Piper">>,
             <<"Dunder", " ", "Mifflin">>,
             <<"Prestige", " ", "Worldwide">>,
             <<"Cyberdyne", " ", "Systems">>,
             <<"Wonka", " ", "Industries">>,
             <<"Massive", " ", "Dynamic">>,
             <<"Soylent", " ", "Corp">>>>,
   channel |-> <<<<"Google", " ", "Ads">>,
             <<"LinkedIn">>,
             <<"Instagram">>,
             <<"TikTok">>,
             <<"Twitter", "/", "X">>,
             <<"YouTube">>,
             <<"Email">>,
             <<"Facebook">>>>,
   topic |-> <<<<"AI", " ", "in", " ", "Business">>,
           <<"Remote", " ", "Work", " ", "Best", " ", "Practices">>,
           <<"Growth", " ", "Hacking">>,
           <<"Customer", " ", "Retention">>,
           <<"Industry", " ", "Trends", " ", "2026">>,
           <<"Data", "-", "Driven", " ", "Decisions">>,
           <<"Sustainable", " ", "Business">>,
           <<"Team", " ", "Productivity">>>>,
   variant |-> <<<<"A">>,
             <<"B">>,
             <<"C">>,
             <<"D">>>>,
   product |-> <<<<"Pro", " ", "Plan">>,
             <<"Enterprise", " ", "Suite">>,
             <<"Starter", " ", "Pack">>,
             <<"API", " ", "Platform">>,
             <<"Analytics", " ", "Dashboard">>>>,
   process |-> <<<<"invoicing">>,
             <<"onboarding">>,
             <<"deployment">>,
             <<"reporting">>,
             <<"approvals">>>>,
   vendor |-> <<<<"AWS">>,
            <<"Salesforce">>,
            <<"HubSpot">>,
            <<"Slack">>,
            <<"Zoom">>,
            <<"Notion">>,
            <<"Figma">>>>,
   role |-> <<<<"Software", " ", "Engineer">>,
          <<"Product", " ", "Manager">>,
          <<"Sales", " ", "Rep">>,
          <<"Marketing", " ", "Lead">>,
          <<"Data", " ", "Analyst">>,
          <<"UX", " ", "Designer">>,
          <<"DevOps", " ", "Engineer">>,
          <<"Customer", " ", "Success", " ", "Manager">>>>,
   month |-> <<<<"January">>,
           <<"February">>,
           <<"March">>,
           <<"April">>,
           <<"May">>,
           <<"June">>,
           <<"July">>,
           <<"August">>,
           <<"September">>,
           <<"October">>,
           <<"November">>,
           <<"December">>>>,
   feature |-> <<<<"Dashboard">>,
             <<"Notifications">>,
             <<"Search">>,
             <<"Settings">>,
             <<"Reports">>,
             <<"Integrations">>,
             <<"Permissions">>,
             <<"Billing">>,
             <<"Onboarding">>,
             <<"Analytics">>>>,
   module |-> <<<<"auth">>,
            <<"payments">>,
            <<"notifications">>,
            <<"analytics">>,
            <<"user", "-", "management">>,
            <<"api", "-", "gateway">>>>,
   severity |-> <<<<"critical">>,
              <<"high">>,
              <<"medium">>,
              <<"low">>>>,
   service |-> <<<<"user", "-", "service">>,
             <<"payment", "-", "service">>,
             <<"notification", "-", "service">>,
             <<"analytics", "-", "service">>>>,
   env |-> <<<<"staging">>,
         <<"production">>,
         <<"dev">>>>]

WORKFLOW_TEMPLATES ==
  [marketing |-> <<
      [key |-> "mkt_content_calendar",
       template |-> <<"Draft", " ", "Q", "{", "q", "}", " ", "social", " ", "media", " ", "content", " ", "calendar">>,
       contextKeys |-> <<"q">>,
       followUps |-> <<
         [template |-> <<"Review", " ", "Q", "{", "q", "}", " ", "content", " ", "calendar", " ", "with", " ", "stakeholders">>, category |-> "marketing"],
         [template |-> <<"Get", " ", "design", " ", "assets", " ", "for", " ", "Q", "{", "q", "}", " ", "social", " ", "posts">>, category |-> "marketing"],
         [template |-> <<"Schedule", " ", "Q", "{", "q", "}", " ", "social", " ", "media", " ", "posts">>, category |-> "marketing"],
         [template |-> <<"Set", " ", "up", " ", "analytics", " ", "tracking", " ", "for", " ", "Q", "{", "q", "}", " ", "social", " ", "campaigns">>, category |-> "marketing"]>>],
      [key |-> "mkt_campaign_roi",
       template |-> <<"Analyze", " ", "campaign", " ", "ROI", " ", "for", " ", "{", "channel", "}">>,
       contextKeys |-> <<"channel">>,
       followUps |-> <<
         [template |-> <<"Present", " ", "{", "channel", "}", " ", "ROI", " ", "findings", " ", "to", " ", "leadership">>, category |-> "marketing"],
         [template |-> <<"Optimize", " ", "{", "channel", "}", " ", "ad", " ", "spend", " ", "based", " ", "on", " ", "ROI", " ", "data">>, category |-> "marketing"],
         [template |-> <<"Create", " ", "follow", "-", "up", " ", "campaign", " ", "for", " ", "{", "channel", "}">>, category |-> "marketing"],
         [template |-> <<"Update", " ", "{", "channel", "}", " ", "budget", " ", "allocation">>, category |-> "finance", priority |-> "medium"]>>],
      [key |-> "mkt_ab_test",
       template |-> <<"Create", " ", "A", "/", "B", " ", "test", " ", "for", " ", "landing", " ", "page", " ", "{", "variant", "}">>,
       contextKeys |-> <<"variant">>,
       followUps |-> <<
         [template |-> <<"Monitor", " ", "A", "/", "B", " ", "test", " ", "results", " ", "for", " ", "variant", " ", "{", "variant", "}">>, category |-> "marketing"],
         [template |-> <<"Analyze", " ", "conversion", " ", "data", " ", "for", " ", "variant", " ", "{", "variant", "}">>, category |-> "marketing"],
         [template |-> <<"Implement", " ", "winning", " ", "variant", " ", "from", " ", "{", "variant", "}", " ", "test">>, category |-> "engineering"],
         [template |-> <<"Document", " ", "A", "/", "B", " ", "test", " ", "learnings", " -- ", "variant", " ", "{", "variant", "}">>, category |-> "marketing"]>>],
      [key |-> "mkt_blog",
       template |-> <<"Write", " ", "blog", " ", "post", " ", "about", " ", "{", "topic", "}">>,
       contextKeys |-> <<"topic">>,
       followUps |-> <<
         [template |-> <<"Edit", " ", "and", " ", "proofread", " ", "{", "topic", "}", " ", "blog", " ", "post">>, category |-> "marketing"],
         [template |-> <<"Create", " ", "social", " ", "media", " ", "snippets", " ", "for", " ", "{", "topic", "}", " ", "article">>, category |-> "marketing"],
         [template |-> <<"Design", " ", "featured", " ", "image", " ", "for", " ", "{", "topic", "}", " ", "blog", " ", "post">>, category |-> "marketing"],
         [template |-> <<"Distribute", " ", "{", "topic", "}", " ", "blog", " ", "post", " ", "to", " ", "newsletter", " ", "subscribers">>, category |-> "marketing"],
         [template |-> <<"Track", " ", "engagement", " ", "metrics", " ", "for", " ", "{", "topic", "}", " ", "blog", " ", "post">>, category |-> "marketing"]>>],
      [key |-> "mkt_webinar",
       template |-> <<"Plan", " ", "webinar", " ", "on", " ", "{", "topic", "}">>,
       contextKeys |-> <<"topic">>,
       followUps |-> <<
         [template |-> <<"Create", " ", "slide", " ", "deck", " ", "for", " ", "{", "topic", "}", " ", "webinar">>, category |-> "marketing"],
         [template |-> <<"Send", " ", "invite", " ", "emails", " ", "for", " ", "{", "topic", "}", " ", "webinar">>, category |-> "marketing"],
         [template |-> <<"Set", " ", "up", " ", "registration", " ", "page", " ", "for", " ", "{", "topic", "}", " ", "webinar">>, category |-> "marketing"],
         [template |-> <<"Rehearse", " ", "{", "topic", "}", " ", "webinar", " ", "presentation">>, category |-> "marketing"],
         [template |-> <<"Prepare", " ", "follow", "-", "up", " ", "sequence", " ", "for", " ", "{", "topic", "}", " ", "webinar", " ", "attendees">>, category |-> "sales"]>>],
      [key |-> "mkt_ad_creative",
       template |-> <<"Design", " ", "ad", " ", "creative", " ", "for", " ", "{", "channel", "}", " ", "campaign">>,
       contextKeys |-> <<"channel">>,
       followUps |-> <<
         [template |-> <<"Get", " ", "approval", " ", "on", " ", "{", "channel", "}", " ", "ad", " ", "creative">>, category |-> "marketing"],
         [template |-> <<"Launch", " ", "{", "channel", "}", " ", "ad", " ", "campaign">>, category |-> "marketing"],
         [template |-> <<"Set", " ", "up", " ", "conversion", " ", "tracking", " ", "for", " ", "{", "channel", "}", " ", "ads">>, category |-> "marketing"],
         [template |-> <<"Monitor", " ", "first", " ", "48h", " ", "performance", " ", "of", " ", "{", "channel", "}", " ", "ads">>, category |-> "marketing"]>>],
      [key |-> "mkt_seo_audit",
       template |-> <<"Audit", " ", "SEO", " ", "performance", " ", "for", " ", "top", " ", "pages">>,
       contextKeys |-> <<>>,
       followUps |-> <<
         [template |-> <<"Fix", " ", "critical", " ", "SEO", " ", "issues", " ", "from", " ", "audit">>, category |-> "engineering"],
         [template |-> <<"Update", " ", "meta", " ", "descriptions", " ", "for", " ", "underperforming", " ", "pages">>, category |-> "marketing"],
         [template |-> <<"Build", " ", "backlink", " ", "outreach", " ", "list", " ", "from", " ", "SEO", " ", "audit">>, category |-> "marketing"],
         [template |-> <<"Create", " ", "content", " ", "brief", " ", "for", " ", "SEO", " ", "gap", " ", "opportunities">>, category |-> "marketing"]>>],
      [key |-> "mkt_influencer",
       template |-> <<"Schedule", " ", "influencer", " ", "outreach", " ", "for", " ", "{", "channel", "}">>,
       contextKeys |-> <<"channel">>,
       followUps |-> <<
         [template |-> <<"Negotiate", " ", "rates", " ", "with", " ", "{", "channel", "}", " ", "influencers">>, category |-> "marketing"],
         [template |-> <<"Brief", " ", "influencers", " ", "on", " ", "{", "channel", "}", " ", "campaign", " ", "goals">>, category |-> "marketing"],
         [template |-> <<"Review", " ", "influencer", " ", "content", " ", "drafts", " ", "for", " ", "{", "channel", "}">>, category |-> "marketing"],
         [template |-> <<"Measure", " ", "influencer", " ", "campaign", " ", "impact", " ", "on", " ", "{", "channel", "}">>, category |-> "marketing"]>>],
      [key |-> "mkt_press_release",
       template |-> <<"Prepare", " ", "press", " ", "release", " ", "for", " ", "product", " ", "launch">>,
       contextKeys |-> <<>>,
       followUps |-> <<
         [template |-> <<"Get", " ", "legal", " ", "review", " ", "on", " ", "press", " ", "release">>, category |-> "operations"],
         [template |-> <<"Distribute", " ", "press", " ", "release", " ", "to", " ", "media", " ", "contacts">>, category |-> "marketing"],
         [template |-> <<"Monitor", " ", "press", " ", "coverage", " ", "and", " ", "media", " ", "mentions">>, category |-> "marketing"],
         [template |-> <<"Compile", " ", "media", " ", "coverage", " ", "report", " ", "for", " ", "leadership">>, category |-> "marketing"]>>],
      [key |-> "mkt_competitor",
       template |-> <<"Review", " ", "competitor", " ", "positioning", " ", "report">>,
       contextKeys |-> <<>>,
       followUps |-> <<
         [template |-> <<"Update", " ", "competitive", " ", "battle", " ", "cards", " ", "with", " ", "new", " ", "findings">>, category |-> "sales"],
         [template |-> <<"Identify", " ", "messaging", " ", "gaps", " ", "from", " ", "competitor", " ", "analysis">>, category |-> "marketing"],
         [template |-> <<"Brief", " ", "sales", " ", "team", " ", "on", " ", "competitor", " ", "positioning", " ", "changes">>, category |-> "sales"],
         [template |-> <<"Adjust", " ", "product", " ", "positioning", " ", "based", " ", "on", " ", "competitor", " ", "moves">>, category |-> "product"]>>]>>,
   sales |-> <<
      [key |-> "sales_follow_up",
       template |-> <<"Follow", " ", "up", " ", "with", " ", "{", "company", "}", " ", "lead">>,
       contextKeys |-> <<"company">>,
       followUps |-> <<
         [template |-> <<"Schedule", " ", "discovery", " ", "call", " ", "with", " ", "{", "company", "}">>, category |-> "sales"],
         [template |-> <<"Send", " ", "case", " ", "studies", " ", "to", " ", "{", "company", "}", " ", "stakeholders">>, category |-> "sales"],
         [template |-> <<"Research", " ", "{", "company", "}", " ", "org", " ", "structure", " ", "for", " ", "champion", " ", "mapping">>, category |-> "sales"],
         [template |-> <<"Add", " ", "{", "company", "}", " ", "notes", " ", "to", " ", "CRM">>, category |-> "sales"]>>],
      [key |-> "sales_proposal",
       template |-> <<"Prepare", " ", "proposal", " ", "for", " ", "{", "company", "}">>,
       contextKeys |-> <<"company">>,
       followUps |-> <<
         [template |-> <<"Send", " ", "proposal", " ", "to", " ", "{", "company", "}", " ", "decision", " ", "makers">>, category |-> "sales"],
         [template |-> <<"Schedule", " ", "proposal", " ", "walkthrough", " ", "with", " ", "{", "company", "}">>, category |-> "sales"],
         [template |-> <<"Prepare", " ", "pricing", " ", "alternatives", " ", "for", " ", "{", "company", "}">>, category |-> "sales"],
         [template |-> <<"Get", " ", "legal", " ", "review", " ", "on", " ", "{", "company", "}", " ", "contract", " ", "terms">>, category |-> "operations"]>>],
      [key |-> "sales_demo",
       template |-> <<"Conduct", " ", "demo", " ", "for", " ", "{", "company", "}">>,
       contextKeys |-> <<"company">>,
       followUps |-> <<
         [template |-> <<"Send", " ", "demo", " ", "recording", " ", "and", " ", "recap", " ", "to", " ", "{", "company", "}">>, category |-> "sales"],
         [template |-> <<"Address", " ", "{", "company", "}", " ", "technical", " ", "questions", " ", "from", " ", "demo">>, category |-> "engineering"],
         [template |-> <<"Prepare", " ", "custom", " ", "ROI", " ", "analysis", " ", "for", " ", "{", "company", "}">>, category |-> "sales"],
         [template |-> <<"Schedule", " ", "follow", "-", "up", " ", "meeting", " ", "with", " ", "{", "company", "}">>, category |-> "sales"]>>],
      [key |-> "sales_negotiate",
       template |-> <<"Negotiate", " ", "contract", " ", "terms", " ", "with", " ", "{", "company", "}">>,
       contextKeys |-> <<"company">>,
       followUps |-> <<
         [template |-> <<"Get", " ", "legal", " ", "approval", " ", "on", " ", "{", "company", "}", " ", "contract">>, category |-> "operations"],
         [template |-> <<"Process", " ", "signed", " ", "contract", " ", "for", " ", "{", "company", "}">>, category |-> "sales", priority |-> "high"],
         [template |-> <<"Generate", " ", "initial", " ", "invoice", " ", "for", " ", "{", "company", "}">>, category |-> "finance"],
         [template |-> <<"Schedule", " ", "{", "company", "}", " ", "onboarding", " ", "kickoff">>, category |-> "support"],
         [template |-> <<"Notify", " ", "product", " ", "team", " ", "about", " ", "{", "company", "}", " ", "requirements">>, category |-> "product"]>>],
      [key |-> "sales_pipeline",
       template |-> <<"Update", " ", "CRM", " ", "pipeline", " ", "for", " ", "Q", "{", "q", "}">>,
       contextKeys |-> <<"q">>,
       followUps |-> <<
         [template |-> <<"Verify", " ", "Q", "{", "q", "}", " ", "pipeline", " ", "accuracy", " ", "with", " ", "reps">>, category |-> "sales"],
         [template |-> <<"Identify", " ", "at", "-", "risk", " ", "deals", " ", "in", " ", "Q", "{", "q", "}", " ", "pipeline">>, category |-> "sales"],
         [template |-> <<"Present", " ", "Q", "{", "q", "}", " ", "pipeline", " ", "review", " ", "to", " ", "leadership">>, category |-> "sales"],
         [template |-> <<"Update", " ", "Q", "{", "q", "}", " ", "revenue", " ", "forecast", " ", "based", " ", "on", " ", "pipeline">>, category |-> "finance"]>>],
      [key |-> "sales_outreach",
       template |-> <<"Cold", " ", "outreach", " ", "batch", " -- ", "{", "num2", "}", " ", "prospects">>,
       contextKeys |-> <<"num2">>,
       followUps |-> <<
         [template |-> <<"Follow", " ", "up", " ", "on", " ", "non", "-", "responders", " ", "from", " ", "{", "num2", "}", "-", "prospect", " ", "batch">>, category |-> "sales"],
         [template |-> <<"Qualify", " ", "responses", " ", "from", " ", "{", "num2", "}", "-", "prospect", " ", "outreach">>, category |-> "sales"],
         [template |-> <<"A", "/", "B", " ", "test", " ", "subject", " ", "lines", " ", "for", " ", "next", " ", "outreach", " ", "batch">>, category |-> "sales"],
         [template |-> <<"Update", " ", "prospect", " ", "list", " ", "for", " ", "next", " ", "outreach", " ", "batch">>, category |-> "sales"]>>],
      [key |-> "sales_churn",
       template |-> <<"Analyze", " ", "churn", " ", "reasons", " ", "for", " ", "Q", "{", "q", "}">>,
       contextKeys |-> <<"q">>,
       followUps |-> <<
         [template |-> <<"Present", " ", "Q", "{", "q", "}", " ", "churn", " ", "analysis", " ", "to", " ", "product", " ", "team">>, category |-> "product"],
         [template |-> <<"Create", " ", "win", "-", "back", " ", "campaign", " ", "for", " ", "Q", "{", "q", "}", " ", "churned", " ", "accounts">>, category |-> "marketing"],
         [template |-> <<"Implement", " ", "retention", " ", "improvements", " ", "based", " ", "on", " ", "Q", "{", "q", "}", " ", "churn", " ", "data">>, category |-> "product"],
         [template |-> <<"Update", " ", "Q", "{", "q", "}", " ", "churn", " ", "report", " ", "for", " ", "board">>, category |-> "finance"]>>],
      [key |-> "sales_qbr",
       template |-> <<"Schedule", " ", "quarterly", " ", "business", " ", "review", " ", "with", " ", "{", "company", "}">>,
       contextKeys |-> <<"company">>,
       followUps |-> <<
         [template |-> <<"Prepare", " ", "QBR", " ", "deck", " ", "for", " ", "{", "company", "}">>, category |-> "sales"],
         [template |-> <<"Pull", " ", "usage", " ", "analytics", " ", "for", " ", "{", "company", "}", " ", "QBR">>, category |-> "product"],
         [template |-> <<"Conduct", " ", "QBR", " ", "meeting", " ", "with", " ", "{", "company", "}">>, category |-> "sales"],
         [template |-> <<"Document", " ", "action", " ", "items", " ", "from", " ", "{", "company", "}", " ", "QBR">>, category |-> "sales"],
         [template |-> <<"Identify", " ", "upsell", " ", "opportunities", " ", "from", " ", "{", "company", "}", " ", "QBR">>, category |-> "sales"]>>],
      [key |-> "sales_upsell",
       template |-> <<"Create", " ", "upsell", " ", "playbook", " ", "for", " ", "{", "product", "}">>,
       contextKeys |-> <<"product">>,
       followUps |-> <<
         [template |-> <<"Train", " ", "sales", " ", "team", " ", "on", " ", "{", "product", "}", " ", "upsell", " ", "playbook">>, category |-> "sales"],
         [template |-> <<"Create", " ", "objection", " ", "handling", " ", "guide", " ", "for", " ", "{", "product", "}", " ", "upsell">>, category |-> "sales"],
         [template |-> <<"Build", " ", "{", "product", "}", " ", "upsell", " ", "email", " ", "sequence">>, category |-> "marketing"],
         [template |-> <<"Track", " ", "{", "product", "}", " ", "upsell", " ", "conversion", " ", "rates">>, category |-> "sales"]>>]>>,
   operations |-> <<
      [key |-> "ops_vendor_audit",
       template |-> <<"Audit", " ", "vendor", " ", "contract", " ", "with", " ", "{", "vendor", "}">>,
       contextKeys |-> <<"vendor">>,
       followUps |-> <<
         [template |-> <<"Negotiate", " ", "renewal", " ", "terms", " ", "with", " ", "{", "vendor", "}">>, category |-> "operations"],
         [template |-> <<"Evaluate", " ", "{", "vendor", "}", " ", "alternatives">>, category |-> "operations"],
         [template |-> <<"Update", " ", "{", "vendor", "}", " ", "SLA", " ", "documentation">>, category |-> "operations"],
         [template |-> <<"Review", " ", "{", "vendor", "}", " ", "spending", " ", "with", " ", "finance">>, category |-> "finance"]>>],
      [key |-> "ops_sop",
       template |-> <<"Review", " ", "and", " ", "update", " ", "SOP", " ", "documentation">>,
       contextKeys |-> <<>>,
       followUps |-> <<
         [template |-> <<"Distribute", " ", "updated", " ", "SOPs", " ", "to", " ", "department", " ", "leads">>, category |-> "operations"],
         [template |-> <<"Schedule", " ", "SOP", " ", "training", " ", "sessions">>, category |-> "hr"],
         [template |-> <<"Set", " ", "up", " ", "quarterly", " ", "SOP", " ", "review", " ", "cycle">>, category |-> "operations"],
         [template |-> <<"Audit", " ", "compliance", " ", "with", " ", "updated", " ", "SOPs">>, category |-> "operations"]>>],
      [key |-> "ops_tooling",
       template |-> <<"Evaluate", " ", "new", " ", "tooling", " ", "for", " ", "{", "process", "}">>,
       contextKeys |-> <<"process">>,
       followUps |-> <<
         [template |-> <<"Run", " ", "pilot", " ", "program", " ", "for", " ", "new", " ", "{", "process", "}", " ", "tool">>, category |-> "operations"],
         [template |-> <<"Collect", " ", "team", " ", "feedback", " ", "on", " ", "{", "process", "}", " ", "tool", " ", "trial">>, category |-> "operations"],
         [template |-> <<"Prepare", " ", "cost", "-", "benefit", " ", "analysis", " ", "for", " ", "{", "process", "}", " ", "tool">>, category |-> "finance"],
         [template |-> <<"Plan", " ", "migration", " ", "to", " ", "new", " ", "{", "process", "}", " ", "tool">>, category |-> "operations"],
         [template |-> <<"Train", " ", "team", " ", "on", " ", "new", " ", "{", "process", "}", " ", "tool">>, category |-> "hr"]>>],
      [key |-> "ops_vendor_renewal",
       template |-> <<"Negotiate", " ", "vendor", " ", "renewal", " ", "for", " ", "{", "vendor", "}">>,
       contextKeys |-> <<"vendor">>,
       followUps |-> <<
         [template |-> <<"Finalize", " ", "{", "vendor", "}", " ", "renewal", " ", "paperwork">>, category |-> "operations"],
         [template |-> <<"Update", " ", "{", "vendor", "}", " ", "contract", " ", "in", " ", "records">>, category |-> "operations"],
         [template |-> <<"Review", " ", "{", "vendor", "}", " ", "renewal", " ", "impact", " ", "on", " ", "budget">>, category |-> "finance"],
         [template |-> <<"Communicate", " ", "{", "vendor", "}", " ", "changes", " ", "to", " ", "affected", " ", "teams">>, category |-> "operations"]>>],
      [key |-> "ops_disaster_recovery",
       template |-> <<"Update", " ", "disaster", " ", "recovery", " ", "plan">>,
       contextKeys |-> <<>>,
       followUps |-> <<
         [template |-> <<"Schedule", " ", "disaster", " ", "recovery", " ", "drill">>, category |-> "operations"],
         [template |-> <<"Review", " ", "backup", " ", "systems", " ", "and", " ", "failover", " ", "procedures">>, category |-> "engineering"],
         [template |-> <<"Train", " ", "team", " ", "leads", " ", "on", " ", "disaster", " ", "recovery", " ", "protocols">>, category |-> "hr"],
         [template |-> <<"Document", " ", "lessons", " ", "learned", " ", "from", " ", "DR", " ", "drill">>, category |-> "operations"]>>],
      [key |-> "ops_efficiency",
       template |-> <<"Conduct", " ", "process", " ", "efficiency", " ", "analysis", " ", "for", " ", "{", "process", "}">>,
       contextKeys |-> <<"process">>,
       followUps |-> <<
         [template |-> <<"Implement", " ", "efficiency", " ", "improvements", " ", "for", " ", "{", "process", "}">>, category |-> "operations"],
         [template |-> <<"Measure", " ", "impact", " ", "of", " ", "{", "process", "}", " ", "optimizations">>, category |-> "operations"],
         [template |-> <<"Document", " ", "new", " ", "{", "process", "}", " ", "workflow">>, category |-> "operations"],
         [template |-> <<"Train", " ", "team", " ", "on", " ", "optimized", " ", "{", "process", "}", " ", "workflow">>, category |-> "hr"]>>],
      [key |-> "ops_compliance",
       template |-> <<"Review", " ", "compliance", " ", "requirements", " ", "update">>,
       contextKeys |-> <<>>,
       followUps |-> <<
         [template |-> <<"Update", " ", "policies", " ", "to", " ", "meet", " ", "new", " ", "compliance", " ", "standards">>, category |-> "operations"],
         [template |-> <<"Schedule", " ", "compliance", " ", "training", " ", "for", " ", "all", " ", "employees">>, category |-> "hr"],
         [template |-> <<"Audit", " ", "current", " ", "systems", " ", "for", " ", "compliance", " ", "gaps">>, category |-> "engineering"],
         [template |-> <<"Report", " ", "compliance", " ", "status", " ", "to", " ", "leadership">>, category |-> "operations"]>>]>>,
   hr |-> <<
      [key |-> "hr_screen",
       template |-> <<"Screen", " ", "candidates", " ", "for", " ", "{", "role", "}", " ", "position">>,
       contextKeys |-> <<"role">>,
       followUps |-> <<
         [template |-> <<"Schedule", " ", "first", "-", "round", " ", "interviews", " ", "for", " ", "{", "role", "}">>, category |-> "hr"],
         [template |-> <<"Prepare", " ", "interview", " ", "scorecard", " ", "for", " ", "{", "role", "}", " ", "candidates">>, category |-> "hr"],
         [template |-> <<"Coordinate", " ", "technical", " ", "assessment", " ", "for", " ", "{", "role", "}", " ", "candidates">>, category |-> "hr"],
         [template |-> <<"Send", " ", "rejection", " ", "emails", " ", "for", " ", "unqualified", " ", "{", "role", "}", " ", "candidates">>, category |-> "hr"]>>],
      [key |-> "hr_interview",
       template |-> <<"Schedule", " ", "interviews", " -- ", "{", "role", "}", " ", "role">>,
       contextKeys |-> <<"role">>,
       followUps |-> <<
         [template |-> <<"Conduct", " ", "interviews", " ", "for", " ", "{", "role", "}", " ", "position">>, category |-> "hr"],
         [template |-> <<"Collect", " ", "interviewer", " ", "feedback", " ", "for", " ", "{", "role", "}", " ", "candidates">>, category |-> "hr"],
         [template |-> <<"Schedule", " ", "final", "-", "round", " ", "interviews", " ", "for", " ", "{", "role", "}">>, category |-> "hr"],
         [template |-> <<"Prepare", " ", "{", "role", "}", " ", "offer", " ", "package">>, category |-> "hr", priority |-> "high"]>>],
      [key |-> "hr_job_desc",
       template |-> <<"Draft", " ", "job", " ", "description", " ", "for", " ", "{", "role", "}">>,
       contextKeys |-> <<"role">>,
       followUps |-> <<
         [template |-> <<"Get", " ", "hiring", " ", "manager", " ", "approval", " ", "on", " ", "{", "role", "}", " ", "job", " ", "description">>, category |-> "hr"],
         [template |-> <<"Post", " ", "{", "role", "}", " ", "job", " ", "to", " ", "job", " ", "boards">>, category |-> "hr"],
         [template |-> <<"Share", " ", "{", "role", "}", " ", "opening", " ", "on", " ", "social", " ", "channels">>, category |-> "marketing"],
         [template |-> <<"Set", " ", "up", " ", "applicant", " ", "tracking", " ", "for", " ", "{", "role", "}">>, category |-> "hr"]>>],
      [key |-> "hr_team_building",
       template |-> <<"Plan", " ", "team", "-", "building", " ", "event", " ", "for", " ", "Q", "{", "q", "}">>,
       contextKeys |-> <<"q">>,
       followUps |-> <<
         [template |-> <<"Book", " ", "venue", " ", "for", " ", "Q", "{", "q", "}", " ", "team", "-", "building", " ", "event">>, category |-> "hr"],
         [template |-> <<"Send", " ", "invitations", " ", "for", " ", "Q", "{", "q", "}", " ", "team", " ", "event">>, category |-> "hr"],
         [template |-> <<"Coordinate", " ", "catering", " ", "for", " ", "Q", "{", "q", "}", " ", "team", " ", "event">>, category |-> "operations"],
         [template |-> <<"Collect", " ", "feedback", " ", "from", " ", "Q", "{", "q", "}", " ", "team", "-", "building", " ", "event">>, category |-> "hr"]>>],
      [key |-> "hr_perf_review",
       template |-> <<"Conduct", " ", "performance", " ", "review", " ", "cycle", " ", "prep">>,
       contextKeys |-> <<>>,
       followUps |-> <<
         [template |-> <<"Distribute", " ", "self", "-", "evaluation", " ", "forms">>, category |-> "hr"],
         [template |-> <<"Train", " ", "managers", " ", "on", " ", "review", " ", "process">>, category |-> "hr"],
         [template |-> <<"Compile", " ", "performance", " ", "data", " ", "for", " ", "reviews">>, category |-> "hr"],
         [template |-> <<"Schedule", " ", "1", "-", "on", "-", "1", " ", "review", " ", "meetings">>, category |-> "hr"],
         [template |-> <<"Prepare", " ", "compensation", " ", "adjustment", " ", "recommendations">>, category |-> "finance"]>>],
      [key |-> "hr_orientation",
       template |-> <<"Coordinate", " ", "new", " ", "hire", " ", "orientation">>,
       contextKeys |-> <<>>,
       followUps |-> <<
         [template |-> <<"Set", " ", "up", " ", "new", " ", "hire", " ", "workstations", " ", "and", " ", "accounts">>, category |-> "operations"],
         [template |-> <<"Schedule", " ", "new", " ", "hire", " ", "meet", "-", "and", "-", "greets">>, category |-> "hr"],
         [template |-> <<"Assign", " ", "onboarding", " ", "buddy", " ", "to", " ", "new", " ", "hires">>, category |-> "hr"],
         [template |-> <<"Check", " ", "in", " ", "with", " ", "new", " ", "hires", " ", "after", " ", "first", " ", "week">>, category |-> "hr"],
         [template |-> <<"Collect", " ", "30", "-", "day", " ", "new", " ", "hire", " ", "feedback">>, category |-> "hr"]>>],
      [key |-> "hr_compensation",
       template |-> <<"Review", " ", "compensation", " ", "benchmarking", " ", "data">>,
       contextKeys |-> <<>>,
       followUps |-> <<
         [template |-> <<"Identify", " ", "roles", " ", "below", " ", "market", " ", "compensation">>, category |-> "hr"],
         [template |-> <<"Prepare", " ", "compensation", " ", "adjustment", " ", "proposal">>, category |-> "hr"],
         [template |-> <<"Review", " ", "compensation", " ", "budget", " ", "impact">>, category |-> "finance"],
         [template |-> <<"Present", " ", "compensation", " ", "recommendations", " ", "to", " ", "leadership">>, category |-> "hr"]>>]>>,
   finance |-> <<
      [key |-> "fin_reconcile",
       template |-> <<"Reconcile", " ", "accounts", " ", "for", " ", "{", "month", "}">>,
       contextKeys |-> <<"month">>,
       followUps |-> <<
         [template |-> <<"Investigate", " ", "discrepancies", " ", "from", " ", "{", "month", "}", " ", "reconciliation">>, category |-> "finance"],
         [template |-> <<"Prepare", " ", "{", "month", "}", " ", "financial", " ", "close", " ", "report">>, category |-> "finance"],
         [template |-> <<"Update", " ", "{", "month", "}", " ", "variance", " ", "analysis">>, category |-> "finance"],
         [template |-> <<"File", " ", "{", "month", "}", " ", "reconciliation", " ", "documentation">>, category |-> "finance"]>>],
      [key |-> "fin_pnl",
       template |-> <<"Prepare", " ", "monthly", " ", "P", "&", "L", " ", "statement">>,
       contextKeys |-> <<>>,
       followUps |-> <<
         [template |-> <<"Review", " ", "P", "&", "L", " ", "anomalies", " ", "with", " ", "department", " ", "heads">>, category |-> "finance"],
         [template |-> <<"Present", " ", "P", "&", "L", " ", "to", " ", "executive", " ", "team">>, category |-> "finance"],
         [template |-> <<"Update", " ", "annual", " ", "forecast", " ", "with", " ", "P", "&", "L", " ", "actuals">>, category |-> "finance"],
         [template |-> <<"Identify", " ", "cost", "-", "saving", " ", "opportunities", " ", "from", " ", "P", "&", "L">>, category |-> "operations"]>>],
      [key |-> "fin_expenses",
       template |-> <<"Review", " ", "expense", " ", "reports", " -- ", "batch", " #", "{", "num", "}">>,
       contextKeys |-> <<"num">>,
       followUps |-> <<
         [template |-> <<"Flag", " ", "policy", " ", "violations", " ", "in", " ", "expense", " ", "batch", " #", "{", "num", "}">>, category |-> "finance"],
         [template |-> <<"Process", " ", "approved", " ", "expenses", " ", "from", " ", "batch", " #", "{", "num", "}">>, category |-> "finance"],
         [template |-> <<"Update", " ", "expense", " ", "policy", " ", "based", " ", "on", " ", "batch", " #", "{", "num", "}", " ", "trends">>, category |-> "operations"],
         [template |-> <<"Send", " ", "reimbursements", " ", "for", " ", "batch", " #", "{", "num", "}">>, category |-> "finance"]>>],
      [key |-> "fin_forecast",
       template |-> <<"Update", " ", "financial", " ", "forecast", " ", "model">>,
       contextKeys |-> <<>>,
       followUps |-> <<
         [template |-> <<"Validate", " ", "forecast", " ", "assumptions", " ", "with", " ", "sales", " ", "leadership">>, category |-> "sales"],
         [template |-> <<"Present", " ", "updated", " ", "forecast", " ", "to", " ", "board">>, category |-> "finance"],
         [template |-> <<"Align", " ", "departmental", " ", "budgets", " ", "to", " ", "new", " ", "forecast">>, category |-> "finance"],
         [template |-> <<"Create", " ", "scenario", " ", "analysis", " ", "from", " ", "forecast", " ", "model">>, category |-> "finance"]>>],
      [key |-> "fin_budget_audit",
       template |-> <<"Audit", " ", "departmental", " ", "budgets", " ", "for", " ", "Q", "{", "q", "}">>,
       contextKeys |-> <<"q">>,
       followUps |-> <<
         [template |-> <<"Discuss", " ", "Q", "{", "q", "}", " ", "budget", " ", "overruns", " ", "with", " ", "department", " ", "leads">>, category |-> "finance"],
         [template |-> <<"Propose", " ", "Q", "{", "q", "}", " ", "budget", " ", "reallocations">>, category |-> "finance"],
         [template |-> <<"Update", " ", "Q", "{", "q", "}", " ", "budget", " ", "tracking", " ", "dashboard">>, category |-> "finance"],
         [template |-> <<"Present", " ", "Q", "{", "q", "}", " ", "budget", " ", "review", " ", "to", " ", "leadership">>, category |-> "finance"]>>],
      [key |-> "fin_investor",
       template |-> <<"Prepare", " ", "quarterly", " ", "investor", " ", "report">>,
       contextKeys |-> <<>>,
       followUps |-> <<
         [template |-> <<"Get", " ", "executive", " ", "sign", "-", "off", " ", "on", " ", "investor", " ", "report">>, category |-> "finance"],
         [template |-> <<"Distribute", " ", "investor", " ", "report", " ", "to", " ", "stakeholders">>, category |-> "finance"],
         [template |-> <<"Schedule", " ", "investor", " ", "Q", "&", "A", " ", "follow", "-", "ups">>, category |-> "finance"],
         [template |-> <<"Update", " ", "investor", " ", "relations", " ", "dashboard">>, category |-> "finance"]>>],
      [key |-> "fin_cash_flow",
       template |-> <<"Analyze", " ", "cash", " ", "flow", " ", "projections">>,
       contextKeys |-> <<>>,
       followUps |-> <<
         [template |-> <<"Identify", " ", "cash", " ", "flow", " ", "risks", " ", "and", " ", "mitigation", " ", "plans">>, category |-> "finance"],
         [template |-> <<"Optimize", " ", "payment", " ", "terms", " ", "with", " ", "key", " ", "vendors">>, category |-> "operations"],
         [template |-> <<"Review", " ", "accounts", " ", "receivable", " ", "aging", " ", "report">>, category |-> "finance"],
         [template |-> <<"Present", " ", "cash", " ", "flow", " ", "outlook", " ", "to", " ", "leadership">>, category |-> "finance"]>>]>>,
   product |-> <<
      [key |-> "prod_prd",
       template |-> <<"Write", " ", "PRD", " ", "for", " ", "{", "feature", "}", " ", "feature">>,
       contextKeys |-> <<"feature">>,
       followUps |-> <<
         [template |-> <<"Review", " ", "PRD", " ", "for", " ", "{", "feature", "}", " ", "with", " ", "engineering">>, category |-> "engineering"],
         [template |-> <<"Get", " ", "stakeholder", " ", "sign", "-", "off", " ", "on", " ", "{", "feature", "}", " ", "PRD">>, category |-> "product"],
         [template |-> <<"Create", " ", "design", " ", "mockups", " ", "for", " ", "{", "feature", "}">>, category |-> "product"],
         [template |-> <<"Break", " ", "down", " ", "{", "feature", "}", " ", "PRD", " ", "into", " ", "engineering", " ", "tickets">>, category |-> "engineering"],
         [template |-> <<"Define", " ", "success", " ", "metrics", " ", "for", " ", "{", "feature", "}">>, category |-> "product"]>>],
      [key |-> "prod_backlog",
       template |-> <<"Prioritize", " ", "backlog", " ", "for", " ", "sprint", " #", "{", "num", "}">>,
       contextKeys |-> <<"num">>,
       followUps |-> <<
         [template |-> <<"Run", " ", "sprint", " #", "{", "num", "}", " ", "planning", " ", "meeting">>, category |-> "product"],
         [template |-> <<"Write", " ", "acceptance", " ", "criteria", " ", "for", " ", "sprint", " #", "{", "num", "}", " ", "stories">>, category |-> "product"],
         [template |-> <<"Coordinate", " ", "sprint", " #", "{", "num", "}", " ", "dependencies", " ", "across", " ", "teams">>, category |-> "product"],
         [template |-> <<"Set", " ", "up", " ", "sprint", " #", "{", "num", "}", " ", "tracking", " ", "board">>, category |-> "product"]>>],
      [key |-> "prod_research",
       template |-> <<"Conduct", " ", "user", " ", "research", " ", "session", " #", "{", "num", "}">>,
       contextKeys |-> <<"num">>,
       followUps |-> <<
         [template |-> <<"Synthesize", " ", "findings", " ", "from", " ", "research", " ", "session", " #", "{", "num", "}">>, category |-> "product"],
         [template |-> <<"Create", " ", "user", " ", "journey", " ", "map", " ", "from", " ", "session", " #", "{", "num", "}", " ", "insights">>, category |-> "product"],
         [template |-> <<"Share", " ", "research", " ", "session", " #", "{", "num", "}", " ", "findings", " ", "with", " ", "team">>, category |-> "product"],
         [template |-> <<"Identify", " ", "feature", " ", "opportunities", " ", "from", " ", "research", " #", "{", "num", "}">>, category |-> "product"]>>],
      [key |-> "prod_wireframes",
       template |-> <<"Create", " ", "wireframes", " ", "for", " ", "{", "feature", "}">>,
       contextKeys |-> <<"feature">>,
       followUps |-> <<
         [template |-> <<"Run", " ", "usability", " ", "test", " ", "on", " ", "{", "feature", "}", " ", "wireframes">>, category |-> "product"],
         [template |-> <<"Iterate", " ", "{", "feature", "}", " ", "wireframes", " ", "based", " ", "on", " ", "feedback">>, category |-> "product"],
         [template |-> <<"Create", " ", "high", "-", "fidelity", " ", "designs", " ", "for", " ", "{", "feature", "}">>, category |-> "product"],
         [template |-> <<"Hand", " ", "off", " ", "{", "feature", "}", " ", "designs", " ", "to", " ", "engineering">>, category |-> "engineering"]>>],
      [key |-> "prod_roadmap",
       template |-> <<"Review", " ", "and", " ", "update", " ", "product", " ", "roadmap">>,
       contextKeys |-> <<>>,
       followUps |-> <<
         [template |-> <<"Communicate", " ", "roadmap", " ", "changes", " ", "to", " ", "stakeholders">>, category |-> "product"],
         [template |-> <<"Align", " ", "engineering", " ", "capacity", " ", "with", " ", "updated", " ", "roadmap">>, category |-> "engineering"],
         [template |-> <<"Update", " ", "marketing", " ", "plans", " ", "for", " ", "roadmap", " ", "changes">>, category |-> "marketing"],
         [template |-> <<"Create", " ", "customer", "-", "facing", " ", "roadmap", " ", "summary">>, category |-> "product"]>>],
      [key |-> "prod_launch",
       template |-> <<"Plan", " ", "product", " ", "launch", " ", "checklist", " ", "for", " ", "v", "{", "num", "}">>,
       contextKeys |-> <<"num">>,
       followUps |-> <<
         [template |-> <<"Create", " ", "v", "{", "num", "}", " ", "launch", " ", "marketing", " ", "materials">>, category |-> "marketing"],
         [template |-> <<"Prepare", " ", "v", "{", "num", "}", " ", "release", " ", "notes">>, category |-> "product"],
         [template |-> <<"Train", " ", "support", " ", "team", " ", "on", " ", "v", "{", "num", "}", " ", "changes">>, category |-> "support"],
         [template |-> <<"Coordinate", " ", "v", "{", "num", "}", " ", "launch", " ", "day", " ", "activities">>, category |-> "operations"],
         [template |-> <<"Monitor", " ", "v", "{", "num", "}", " ", "launch", " ", "metrics">>, category |-> "product"]>>],
      [key |-> "prod_feature_requests",
       template |-> <<"Triage", " ", "customer", " ", "feature", " ", "requests", " -- ", "batch", " #", "{", "num", "}">>,
       contextKeys |-> <<"num">>,
       followUps |-> <<
         [template |-> <<"Group", " ", "feature", " ", "requests", " #", "{", "num", "}", " ", "by", " ", "theme">>, category |-> "product"],
         [template |-> <<"Score", " ", "and", " ", "rank", " ", "feature", " ", "requests", " ", "from", " ", "batch", " #", "{", "num", "}">>, category |-> "product"],
         [template |-> <<"Respond", " ", "to", " ", "top", "-", "voted", " ", "requests", " ", "from", " ", "batch", " #", "{", "num", "}">>, category |-> "support"],
         [template |-> <<"Add", " ", "high", "-", "impact", " ", "requests", " #", "{", "num", "}", " ", "to", " ", "roadmap">>, category |-> "product"]>>],
      [key |-> "prod_metrics",
       template |-> <<"Analyze", " ", "feature", " ", "usage", " ", "metrics", " ", "for", " ", "{", "feature", "}">>,
       contextKeys |-> <<"feature">>,
       followUps |-> <<
         [template |-> <<"Identify", " ", "drop", "-", "off", " ", "points", " ", "in", " ", "{", "feature", "}", " ", "flow">>, category |-> "product"],
         [template |-> <<"Propose", " ", "{", "feature", "}", " ", "UX", " ", "improvements", " ", "based", " ", "on", " ", "data">>, category |-> "product"],
         [template |-> <<"Set", " ", "up", " ", "enhanced", " ", "tracking", " ", "for", " ", "{", "feature", "}">>, category |-> "engineering"],
         [template |-> <<"Report", " ", "{", "feature", "}", " ", "adoption", " ", "metrics", " ", "to", " ", "stakeholders">>, category |-> "product"]>>]>>,
   engineering |-> <<
      [key |-> "eng_bug",
       template |-> <<"Fix", " ", "bug", " #", "{", "num", "}", " ", "in", " ", "{", "module", "}", " ", "module">>,
       contextKeys |-> <<"num", "module">>,
       followUps |-> <<
         [template |-> <<"Write", " ", "regression", " ", "test", " ", "for", " ", "bug", " #", "{", "num", "}", " ", "in", " ", "{", "module", "}">>, category |-> "engineering"],
         [template |-> <<"Code", " ", "review", " ", "bug", " #", "{", "num", "}", " ", "fix", " ", "for", " ", "{", "module", "}">>, category |-> "engineering"],
         [template |-> <<"Deploy", " ", "bug", " #", "{", "num", "}", " ", "fix", " ", "to", " ", "staging">>, category |-> "engineering"],
         [template |-> <<"Verify", " ", "bug", " #", "{", "num", "}", " ", "fix", " ", "in", " ", "production", " ", "for", " ", "{", "module", "}">>, category |-> "engineering"],
         [template |-> <<"Update", " ", "{", "module", "}", " ", "documentation", " ", "after", " ", "bug", " #", "{", "num", "}", " ", "fix">>, category |-> "engineering"]>>],
      [key |-> "eng_code_review",
       template |-> <<"Code", " ", "review", " ", "PR", " #", "{", "num", "}", " ", "for", " ", "{", "module", "}">>,
       contextKeys |-> <<"num", "module">>,
       followUps |-> <<
         [template |-> <<"Address", " ", "review", " ", "comments", " ", "on", " ", "PR", " #", "{", "num", "}", " ", "for", " ", "{", "module", "}">>, category |-> "engineering"],
         [template |-> <<"Run", " ", "integration", " ", "tests", " ", "for", " ", "PR", " #", "{", "num", "}">>, category |-> "engineering"],
         [template |-> <<"Merge", " ", "and", " ", "deploy", " ", "PR", " #", "{", "num", "}", " ", "for", " ", "{", "module", "}">>, category |-> "engineering"],
         [template |-> <<"Monitor", " ", "{", "module", "}", " ", "metrics", " ", "after", " ", "PR", " #", "{", "num", "}", " ", "deploy">>, category |-> "engineering"]>>],
      [key |-> "eng_refactor",
       template |-> <<"Refactor", " ", "{", "module", "}", " ", "module">>,
       contextKeys |-> <<"module">>,
       followUps |-> <<
         [template |-> <<"Update", " ", "unit", " ", "tests", " ", "for", " ", "refactored", " ", "{", "module", "}">>, category |-> "engineering"],
         [template |-> <<"Update", " ", "API", " ", "docs", " ", "after", " ", "{", "module", "}", " ", "refactor">>, category |-> "engineering"],
         [template |-> <<"Performance", " ", "test", " ", "refactored", " ", "{", "module", "}">>, category |-> "engineering"],
         [template |-> <<"Migrate", " ", "dependent", " ", "services", " ", "to", " ", "new", " ", "{", "module", "}", " ", "API">>, category |-> "engineering"]>>],
      [key |-> "eng_tests",
       template |-> <<"Write", " ", "unit", " ", "tests", " ", "for", " ", "{", "module", "}">>,
       contextKeys |-> <<"module">>,
       followUps |-> <<
         [template |-> <<"Achieve", " ", "90", "% ", "code", " ", "coverage", " ", "for", " ", "{", "module", "}">>, category |-> "engineering"],
         [template |-> <<"Add", " ", "integration", " ", "tests", " ", "for", " ", "{", "module", "}">>, category |-> "engineering"],
         [template |-> <<"Set", " ", "up", " ", "CI", " ", "test", " ", "pipeline", " ", "for", " ", "{", "module", "}">>, category |-> "engineering"],
         [template |-> <<"Document", " ", "{", "module", "}", " ", "testing", " ", "patterns">>, category |-> "engineering"]>>],
      [key |-> "eng_deploy",
       template |-> <<"Deploy", " ", "hotfix", " ", "to", " ", "{", "env", "}", " ", "environment">>,
       contextKeys |-> <<"env">>,
       followUps |-> <<
         [template |-> <<"Monitor", " ", "{", "env", "}", " ", "health", " ", "after", " ", "hotfix", " ", "deploy">>, category |-> "engineering"],
         [template |-> <<"Verify", " ", "{", "env", "}", " ", "hotfix", " ", "with", " ", "QA">>, category |-> "engineering"],
         [template |-> <<"Write", " ", "post", "-", "mortem", " ", "for", " ", "{", "env", "}", " ", "hotfix">>, category |-> "engineering"],
         [template |-> <<"Update", " ", "runbook", " ", "with", " ", "{", "env", "}", " ", "deploy", " ", "learnings">>, category |-> "operations"]>>],
      [key |-> "eng_migrate",
       template |-> <<"Migrate", " ", "{", "service", "}", " ", "to", " ", "new", " ", "architecture">>,
       contextKeys |-> <<"service">>,
       followUps |-> <<
         [template |-> <<"Run", " ", "load", " ", "tests", " ", "on", " ", "migrated", " ", "{", "service", "}">>, category |-> "engineering"],
         [template |-> <<"Update", " ", "monitoring", " ", "dashboards", " ", "for", " ", "{", "service", "}">>, category |-> "engineering"],
         [template |-> <<"Deprecate", " ", "legacy", " ", "{", "service", "}", " ", "endpoints">>, category |-> "engineering"],
         [template |-> <<"Train", " ", "team", " ", "on", " ", "new", " ", "{", "service", "}", " ", "architecture">>, category |-> "engineering"],
         [template |-> <<"Update", " ", "{", "service", "}", " ", "documentation">>, category |-> "engineering"]>>],
      [key |-> "eng_security",
       template |-> <<"Conduct", " ", "security", " ", "audit", " ", "for", " ", "{", "module", "}">>,
       contextKeys |-> <<"module">>,
       followUps |-> <<
         [template |-> <<"Fix", " ", "vulnerabilities", " ", "found", " ", "in", " ", "{", "module", "}", " ", "audit">>, category |-> "engineering", priority |-> "critical"],
         [template |-> <<"Update", " ", "security", " ", "policies", " ", "for", " ", "{", "module", "}">>, category |-> "operations"],
         [template |-> <<"Schedule", " ", "penetration", " ", "test", " ", "for", " ", "{", "module", "}">>, category |-> "engineering"],
         [template |-> <<"Document", " ", "{", "module", "}", " ", "security", " ", "improvements">>, category |-> "engineering"]>>],
      [key |-> "eng_design_doc",
       template |-> <<"Write", " ", "technical", " ", "design", " ", "doc", " ", "for", " ", "{", "feature", "}">>,
       contextKeys |-> <<"feature">>,
       followUps |-> <<
         [template |-> <<"Review", " ", "{", "feature", "}", " ", "design", " ", "doc", " ", "with", " ", "team">>, category |-> "engineering"],
         [template |-> <<"Create", " ", "implementation", " ", "plan", " ", "for", " ", "{", "feature", "}">>, category |-> "engineering"],
         [template |-> <<"Estimate", " ", "engineering", " ", "effort", " ", "for", " ", "{", "feature", "}">>, category |-> "engineering"],
         [template |-> <<"Set", " ", "up", " ", "{", "feature", "}", " ", "project", " ", "board", " ", "and", " ", "milestones">>, category |-> "product"]>>],
      [key |-> "eng_perf",
       template |-> <<"Investigate", " ", "performance", " ", "bottleneck", " ", "in", " ", "{", "service", "}">>,
       contextKeys |-> <<"service">>,
       followUps |-> <<
         [template |-> <<"Implement", " ", "fix", " ", "for", " ", "{", "service", "}", " ", "performance", " ", "issue">>, category |-> "engineering"],
         [template |-> <<"Add", " ", "performance", " ", "benchmarks", " ", "for", " ", "{", "service", "}">>, category |-> "engineering"],
         [template |-> <<"Set", " ", "up", " ", "alerting", " ", "for", " ", "{", "service", "}", " ", "latency">>, category |-> "engineering"],
         [template |-> <<"Document", " ", "{", "service", "}", " ", "performance", " ", "optimization">>, category |-> "engineering"]>>]>>,
   support |-> <<
      [key |-> "sup_escalation",
       template |-> <<"Resolve", " ", "escalated", " ", "ticket", " #", "{", "num", "}", " ", "for", " ", "{", "company", "}">>,
       contextKeys |-> <<"num", "company">>,
       followUps |-> <<
         [template |-> <<"Send", " ", "resolution", " ", "summary", " ", "to", " ", "{", "company", "}", " ", "for", " ", "ticket", " #", "{", "num", "}">>, category |-> "support"],
         [template |-> <<"Create", " ", "knowledge", " ", "base", " ", "article", " ", "from", " ", "ticket", " #", "{", "num", "}">>, category |-> "support"],
         [template |-> <<"File", " ", "bug", " ", "report", " ", "from", " ", "{", "company", "}", " ", "ticket", " #", "{", "num", "}">>, category |-> "engineering"],
         [template |-> <<"Follow", " ", "up", " ", "with", " ", "{", "company", "}", " ", "on", " ", "ticket", " #", "{", "num", "}", " ", "satisfaction">>, category |-> "support"]>>],
      [key |-> "sup_kb_article",
       template |-> <<"Update", " ", "knowledge", " ", "base", " ", "article", " ", "for", " ", "{", "feature", "}">>,
       contextKeys |-> <<"feature">>,
       followUps |-> <<
         [template |-> <<"Review", " ", "{", "feature", "}", " ", "KB", " ", "article", " ", "with", " ", "product", " ", "team">>, category |-> "product"],
         [template |-> <<"Add", " ", "screenshots", " ", "to", " ", "{", "feature", "}", " ", "KB", " ", "article">>, category |-> "support"],
         [template |-> <<"Translate", " ", "{", "feature", "}", " ", "KB", " ", "article", " ", "for", " ", "localization">>, category |-> "support"],
         [template |-> <<"Link", " ", "{", "feature", "}", " ", "KB", " ", "article", " ", "in", " ", "app", " ", "help", " ", "center">>, category |-> "engineering"]>>],
      [key |-> "sup_trends",
       template |-> <<"Analyze", " ", "support", " ", "ticket", " ", "trends", " ", "for", " ", "{", "month", "}">>,
       contextKeys |-> <<"month">>,
       followUps |-> <<
         [template |-> <<"Present", " ", "{", "month", "}", " ", "support", " ", "trends", " ", "to", " ", "product", " ", "team">>, category |-> "product"],
         [template |-> <<"Identify", " ", "top", " ", "{", "month", "}", " ", "issues", " ", "for", " ", "engineering", " ", "backlog">>, category |-> "engineering"],
         [template |-> <<"Create", " ", "{", "month", "}", " ", "customer", " ", "satisfaction", " ", "report">>, category |-> "support"],
         [template |-> <<"Propose", " ", "process", " ", "improvements", " ", "from", " ", "{", "month", "}", " ", "trends">>, category |-> "operations"]>>],
      [key |-> "sup_training",
       template |-> <<"Train", " ", "new", " ", "support", " ", "agent", " -- ", "module", " #", "{", "num", "}">>,
       contextKeys |-> <<"num">>,
       followUps |-> <<
         [template |-> <<"Quiz", " ", "new", " ", "agent", " ", "on", " ", "module", " #", "{", "num", "}", " ", "material">>, category |-> "support"],
         [template |-> <<"Shadow", " ", "session", " ", "for", " ", "agent", " ", "on", " ", "module", " #", "{", "num", "}", " ", "topics">>, category |-> "support"],
         [template |-> <<"Evaluate", " ", "agent", " ", "competency", " ", "after", " ", "module", " #", "{", "num", "}">>, category |-> "support"],
         [template |-> <<"Advance", " ", "agent", " ", "to", " ", "module", " #", "{", "num", "}", " ", "next", " ", "level">>, category |-> "support"]>>],
      [key |-> "sup_troubleshooting",
       template |-> <<"Create", " ", "troubleshooting", " ", "guide", " ", "for", " ", "{", "feature", "}">>,
       contextKeys |-> <<"feature">>,
       followUps |-> <<
         [template |-> <<"Test", " ", "{", "feature", "}", " ", "troubleshooting", " ", "steps", " ", "with", " ", "real", " ", "cases">>, category |-> "support"],
         [template |-> <<"Add", " ", "{", "feature", "}", " ", "troubleshooting", " ", "guide", " ", "to", " ", "chatbot">>, category |-> "engineering"],
         [template |-> <<"Train", " ", "support", " ", "team", " ", "on", " ", "{", "feature", "}", " ", "troubleshooting">>, category |-> "support"],
         [template |-> <<"Collect", " ", "feedback", " ", "on", " ", "{", "feature", "}", " ", "troubleshooting", " ", "guide">>, category |-> "support"]>>],
      [key |-> "sup_faq",
       template |-> <<"Build", " ", "FAQ", " ", "for", " ", "{", "feature", "}", " ", "launch">>,
       contextKeys |-> <<"feature">>,
       followUps |-> <<
         [template |-> <<"Publish", " ", "{", "feature", "}", " ", "FAQ", " ", "to", " ", "help", " ", "center">>, category |-> "support"],
         [template |-> <<"Brief", " ", "support", " ", "team", " ", "on", " ", "{", "feature", "}", " ", "FAQ">>, category |-> "support"],
         [template |-> <<"Monitor", " ", "{", "feature", "}", " ", "questions", " ", "not", " ", "covered", " ", "by", " ", "FAQ">>, category |-> "support"],
         [template |-> <<"Update", " ", "{", "feature", "}", " ", "FAQ", " ", "based", " ", "on", " ", "launch", " ", "feedback">>, category |-> "support"]>>],
      [key |-> "sup_triage",
       template |-> <<"Triage", " ", "incoming", " ", "tickets", " -- ", "batch", " #", "{", "num", "}">>,
       contextKeys |-> <<"num">>,
       followUps |-> <<
         [template |-> <<"Assign", " ", "priority", " ", "tickets", " ", "from", " ", "batch", " #", "{", "num", "}">>, category |-> "support"],
         [template |-> <<"Escalate", " ", "critical", " ", "issues", " ", "from", " ", "batch", " #", "{", "num", "}">>, category |-> "support", priority |-> "high"],
         [template |-> <<"Send", " ", "auto", "-", "responses", " ", "for", " ", "batch", " #", "{", "num", "}", " ", "common", " ", "issues">>, category |-> "support"],
         [template |-> <<"Report", " ", "batch", " #", "{", "num", "}", " ", "volume", " ", "to", " ", "leadership">>, category |-> "support"]>>],
      [key |-> "sup_eng_coord",
       template |-> <<"Coordinate", " ", "with", " ", "engineering", " ", "on", " ", "bug", " #", "{", "num", "}", " ", "from", " ", "{", "company", "}">>,
       contextKeys |-> <<"num", "company">>,
       followUps |-> <<
         [template |-> <<"Get", " ", "ETA", " ", "from", " ", "engineering", " ", "on", " ", "bug", " #", "{", "num", "}">>, category |-> "engineering"],
         [template |-> <<"Update", " ", "{", "company", "}", " ", "on", " ", "bug", " #", "{", "num", "}", " ", "progress">>, category |-> "support"],
         [template |-> <<"Verify", " ", "bug", " #", "{", "num", "}", " ", "fix", " ", "resolves", " ", "{", "company", "}", " ", "issue">>, category |-> "support"],
         [template |-> <<"Close", " ", "{", "company", "}", " ", "ticket", " ", "for", " ", "bug", " #", "{", "num", "}">>, category |-> "support"]>>]>>]

NonWordChunks ==
  {" ", " #", " -- ", "% ", "&", "-", "/", "{", "}"}

LowerCaseTable ==
  "A" :> "a" @@ "AI" :> "ai" @@ "API" :> "api" @@ "AWS" :> "aws" @@
  "Achieve" :> "achieve" @@ "Acme" :> "acme" @@ "Add" :> "add" @@ "Address" :> "address" @@
  "Adjust" :> "adjust" @@ "Ads" :> "ads" @@ "Advance" :> "advance" @@ "Align" :> "align" @@
  "Analyst" :> "analyst" @@ "Analytics" :> "analytics" @@ "Analyze" :> "analyze" @@ "April" :> "april" @@
  "Assign" :> "assign" @@ "Audit" :> "audit" @@ "August" :> "august" @@ "B" :> "b" @@
  "Best" :> "best" @@ "Billing" :> "billing" @@ "Book" :> "book" @@ "Break" :> "break" @@
  "Brief" :> "brief" @@ "Build" :> "build" @@ "Business" :> "business" @@ "C" :> "c" @@
  "CI" :> "ci" @@ "CRM" :> "crm" @@ "Check" :> "check" @@ "Close" :> "close" @@
  "Co" :> "co" @@ "Code" :> "code" @@ "Cold" :> "cold" @@ "Collect" :> "collect" @@
  "Communicate" :> "communicate" @@ "Compile" :> "compile" @@ "Conduct" :> "conduct" @@ "Coordinate" :> "coordinate" @@
  "Corp" :> "corp" @@ "Create" :> "create" @@ "Customer" :> "customer" @@ "Cyberdyne" :> "cyberdyne" @@
  "D" :> "d" @@ "DR" :> "dr" @@ "Dashboard" :> "dashboard" @@ "Data" :> "data" @@
  "December" :> "december" @@ "Decisions" :> "decisions" @@ "Define" :> "define" @@ "Deploy" :> "deploy" @@
  "Deprecate" :> "deprecate" @@ "Design" :> "design" @@ "Designer" :> "designer" @@ "DevOps" :> "devops" @@
  "Discuss" :> "discuss" @@ "Distribute" :> "distribute" @@ "Document" :> "document" @@ "Draft" :> "draft" @@
  "Driven" :> "driven" @@ "Dunder" :> "dunder" @@ "Dynamic" :> "dynamic" @@ "ETA" :> "eta" @@
  "Edit" :> "edit" @@ "Email" :> "email" @@ "Engineer" :> "engineer" @@ "Enterprise" :> "enterprise" @@
  "Enterprises" :> "enterprises" @@ "Escalate" :> "escalate" @@ "Estimate" :> "estimate" @@ "Evaluate" :> "evaluate" @@
  "FAQ" :> "faq" @@ "Facebook" :> "facebook" @@ "February" :> "february" @@ "Figma" :> "figma" @@
  "File" :> "file" @@ "Finalize" :> "finalize" @@ "Fix" :> "fix" @@ "Flag" :> "flag" @@
  "Follow" :> "follow" @@ "Generate" :> "generate" @@ "Get" :> "get" @@ "Globex" :> "globex" @@
  "Google" :> "google" @@ "Group" :> "group" @@ "Growth" :> "growth" @@ "Hacking" :> "hacking" @@
  "Hand" :> "hand" @@ "Hooli" :> "hooli" @@ "HubSpot" :> "hubspot" @@ "Identify" :> "identify" @@
  "Implement" :> "implement" @@ "Inc" :> "inc" @@ "Industries" :> "industries" @@ "Industry" :> "industry" @@
  "Initech" :> "initech" @@ "Instagram" :> "instagram" @@ "Integrations" :> "integrations" @@ "Investigate" :> "investigate" @@
  "Iterate" :> "iterate" @@ "January" :> "january" @@ "July" :> "july" @@ "June" :> "june" @@
  "KB" :> "kb" @@ "L" :> "l" @@ "Launch" :> "launch" @@ "Lead" :> "lead" @@
  "Link" :> "link" @@ "LinkedIn" :> "linkedin" @@ "Manager" :> "manager" @@ "March" :> "march" @@
  "Marketing" :> "marketing" @@ "Massive" :> "massive" @@ "May" :> "may" @@ "Measure" :> "measure" @@
  "Merge" :> "merge" @@ "Mifflin" :> "mifflin" @@ "Migrate" :> "migrate" @@ "Monitor" :> "monitor" @@
  "Negotiate" :> "negotiate" @@ "Notifications" :> "notifications" @@ "Notify" :> "notify" @@ "Notion" :> "notion" @@
  "November" :> "november" @@ "October" :> "october" @@ "Onboarding" :> "onboarding" @@ "Optimize" :> "optimize" @@
  "P" :> "p" @@ "PR" :> "pr" @@ "PRD" :> "prd" @@ "Pack" :> "pack" @@
  "Performance" :> "performance" @@ "Permissions" :> "permissions" @@ "Pied" :> "pied" @@ "Piper" :> "piper" @@
  "Plan" :> "plan" @@ "Platform" :> "platform" @@ "Post" :> "post" @@ "Practices" :> "practices" @@
  "Prepare" :> "prepare" @@ "Present" :> "present" @@ "Prestige" :> "prestige" @@ "Prioritize" :> "prioritize" @@
  "Pro" :> "pro" @@ "Process" :> "process" @@ "Product" :> "product" @@ "Productivity" :> "productivity" @@
  "Propose" :> "propose" @@ "Publish" :> "publish" @@ "Pull" :> "pull" @@ "Q" :> "q" @@
  "QA" :> "qa" @@ "QBR" :> "qbr" @@ "Qualify" :> "qualify" @@ "Quiz" :> "quiz" @@
  "ROI" :> "roi" @@ "Reconcile" :> "reconcile" @@ "Refactor" :> "refactor" @@ "Rehearse" :> "rehearse" @@
  "Remote" :> "remote" @@ "Rep" :> "rep" @@ "Report" :> "report" @@ "Reports" :> "reports" @@
  "Research" :> "research" @@ "Resolve" :> "resolve" @@ "Respond" :> "respond" @@ "Retention" :> "retention" @@
  "Review" :> "review" @@ "Run" :> "run" @@ "SEO" :> "seo" @@ "SLA" :> "sla" @@
  "SOP" :> "sop" @@ "SOPs" :> "sops" @@ "Sales" :> "sales" @@ "Salesforce" :> "salesforce" @@
  "Schedule" :> "schedule" @@ "Score" :> "score" @@ "Screen" :> "screen" @@ "Search" :> "search" @@
  "Send" :> "send" @@ "September" :> "september" @@ "Set" :> "set" @@ "Settings" :> "settings" @@
  "Shadow" :> "shadow" @@ "Share" :> "share" @@ "Slack" :> "slack" @@ "Software" :> "software" @@
  "Soylent" :> "soylent" @@ "Stark" :> "stark" @@ "Starter" :> "starter" @@ "Success" :> "success" @@
  "Suite" :> "suite" @@ "Sustainable" :> "sustainable" @@ "Synthesize" :> "synthesize" @@ "Systems" :> "systems" @@
  "Team" :> "team" @@ "Test" :> "test" @@ "TikTok" :> "tiktok" @@ "Track" :> "track" @@
  "Train" :> "train" @@ "Translate" :> "translate" @@ "Trends" :> "trends" @@ "Triage" :> "triage" @@
  "Twitter" :> "twitter" @@ "UX" :> "ux" @@ "Umbrella" :> "umbrella" @@ "Update" :> "update" @@
  "Validate" :> "validate" @@ "Verify" :> "verify" @@ "Wayne" :> "wayne" @@ "Wonka" :> "wonka" @@
  "Work" :> "work" @@ "Worldwide" :> "worldwide" @@ "Write" :> "write" @@ "X" :> "x" @@
  "YouTube" :> "youtube" @@ "Zoom" :> "zoom"
\* Object.keys(WORKFLOW_TEMPLATES), in declaration order.
TemplateCategories ==
  <<"marketing", "sales", "operations", "hr", "finance", "product",
    "engineering", "support">>

\* The keys generateContextValue answers with a number; String(value) is what
\* String.prototype.replace puts into the title.
NumericKeys == {"q", "num", "num2"}

(* ---------------------------- environment ------------------------------ *)

\* const x = ...; F(x): the value of a call is taken once and named.
Bind(x, F(_)) == F(x)

\* The environment of one engine call: the random source (a seed and the
\* number of draws taken) and the clock (its value and its advance per read).
Env(seed, now, dt) == [seed |-> seed, pos |-> 0, clock |-> now, dt |-> dt]

\* The next value of Math.random(), as a numerator over Grid.
Random(e) ==
  (e.seed[(e.pos % Len(e.seed)) + 1] + (e.pos \div Len(e.seed)) * Stride) % Grid

\* The environment after one Math.random() call.
Drawn(e) == [e EXCEPT !.pos = @ + 1]

\* r < percent / 100, for r = k / Grid.
Less(k, percent) == k * 100 < percent * Grid

\* Math.floor(Math.random() * n)
FloorRandom(e, n) == (Random(e) * n) \div Grid

\* new Date() / Date.now(), and the environment after the read.
DateNow(e) == e.clock
Ticked(e) == [e EXCEPT !.clock = @ + e.dt]

\* Date.prototype.toISOString: the calendar day and the time of day.
toISOString(ms) == [day |-> ms \div DayMs, ms |-> ms % DayMs]

(* --------------------------- utility helpers --------------------------- *)

randInt(min, max, e) ==
  [v |-> FloorRandom(e, max - min + 1) + min, e |-> Drawn(e)]

\* Mutant: the clock is mixed into the draw.
pick_ClockSeeded(arr, e) ==
  [v |-> arr[(((Random(e) + DateNow(e)) % Grid) * Len(arr)) \div Grid + 1],
   e |-> Drawn(e)]

pick(arr, e) ==
  [v |-> arr[FloorRandom(e, Len(arr)) + 1], e |-> Drawn(e)]

\* Date.now().toString(36) + Math.random().toString(36).slice(2, 8)
generateId(e) ==
  [v |-> [time |-> DateNow(e), suffix |-> Random(e)], e |-> Drawn(Ticked(e))]

\* Mutant: a key without options is left as a token.
generateContextValue_KeepsToken(key, e) ==
  IF key = "q" THEN randInt(1, 4, e)
  ELSE IF key = "num" THEN randInt(100, 9999, e)
  ELSE IF key = "num2" THEN randInt(10, 200, e)
  ELSE IF key \in DOMAIN FILL_DATA THEN pick(FILL_DATA[key], e)
  ELSE [v |-> <<"{", key, "}">>, e |-> e]

generateContextValue(key, e) ==
  IF key = "q" THEN randInt(1, 4, e)
  ELSE IF key = "num" THEN randInt(100, 9999, e)
  ELSE IF key = "num2" THEN randInt(10, 200, e)
  ELSE IF key \in DOMAIN FILL_DATA THEN pick(FILL_DATA[key], e)
  ELSE [v |-> <<key>>, e |-> e]

RECURSIVE BuildContextFrom(_, _, _, _)
BuildContextFrom(keys, i, context, e) ==
  IF i > Len(keys) THEN [v |-> context, e |-> e]
  ELSE Bind(generateContextValue(keys[i], e), LAMBDA g :
         BuildContextFrom(keys, i + 1, (keys[i] :> g.v) @@ context, g.e))

\* Mutant: the first declared key gets no value.
buildContext_SkipsFirstKey(workflowTemplate, e) ==
  BuildContextFrom(workflowTemplate.contextKeys, 2, <<>>, e)

\* Mutant: no value is generated, the context is left empty.
buildContext_Empty(workflowTemplate, e) == [v |-> <<>>, e |-> e]

buildContext(workflowTemplate, e) ==
  BuildContextFrom(workflowTemplate.contextKeys, 1, <<>>, e)

\* \w+ against one chunk.
IsWord(chunk) == chunk \notin NonWordChunks

\* String(value) for the value stored under key.
String(key, value) ==
  IF key \in NumericKeys THEN <<ToString(value)>> ELSE value

\* template.replace(/\{(\w+)\}/g, ...), scanning from chunk i.
RECURSIVE FillFrom(_, _, _, _, _)
FillFrom(template, i, context, filled, e) ==
  IF i > Len(template) THEN [v |-> filled, e |-> e]
  ELSE IF /\ template[i] = "{"
          /\ i + 2 <= Len(template)
          /\ IsWord(template[i + 1])
          /\ template[i + 2] = "}"
  THEN Bind(IF template[i + 1] \in DOMAIN context
            THEN [v |-> context[template[i + 1]], e |-> e]
            ELSE generateContextValue(template[i + 1], e), LAMBDA g :
         FillFrom(template, i + 3, context,
                  filled \o String(template[i + 1], g.v), g.e))
  ELSE FillFrom(template, i + 1, context, Append(filled, template[i]), e)

\* Mutant: the context handed in is ignored, every token is generated anew.
fillWithContext_Regenerates(template, context, e) ==
  FillFrom(template, 1, <<>>, <<>>, e)

fillWithContext(template, context, e) == FillFrom(template, 1, context, <<>>, e)

\* Mutant: the offset starts at 0 days.
generateDueDate_FromToday(e) ==
  Bind(randInt(0, 14, Ticked(e)), LAMBDA d :
    [v |-> toISOString(DateNow(e) + d.v * DayMs), e |-> d.e])

generateDueDate(e) ==
  Bind(randInt(1, 14, Ticked(e)), LAMBDA d :
    [v |-> toISOString(DateNow(e) + d.v * DayMs), e |-> d.e])

\* Mutant: inheritance from the parent is tried before the override.
selectPriority_InheritFirst(override, parentPri, e) ==
  IF parentPri # null /\ Less(Random(e), 40)
  THEN [v |-> parentPri, e |-> Drawn(e)]
  ELSE IF override # null THEN [v |-> override, e |-> Drawn(e)]
  ELSE Bind(Random(Drawn(e)), LAMBDA roll :
         [v |-> IF Less(roll, 10) THEN "critical"
                ELSE IF Less(roll, 35) THEN "high"
                ELSE IF Less(roll, 75) THEN "medium"
                ELSE "low",
          e |-> Drawn(Drawn(e))])

\* Mutant: the parent's priority is never inherited.
selectPriority_NoInherit(override, parentPri, e) ==
  IF override # null THEN [v |-> override, e |-> e]
  ELSE Bind(IF parentPri # null THEN Drawn(e) ELSE e, LAMBDA e1 :
       Bind(Random(e1), LAMBDA roll :
         [v |-> IF Less(roll, 10) THEN "critical"
                ELSE IF Less(roll, 35) THEN "high"
                ELSE IF Less(roll, 75) THEN "medium"
                ELSE "low",
          e |-> Drawn(e1)]))

selectPriority(override, parentPri, e) ==
  IF override # null THEN [v |-> override, e |-> e]
  ELSE IF parentPri # null /\ Less(Random(e), 40)
  THEN [v |-> parentPri, e |-> Drawn(e)]
  ELSE Bind(IF parentPri # null THEN Drawn(e) ELSE e, LAMBDA e1 :
       Bind(Random(e1), LAMBDA roll :
         [v |-> IF Less(roll, 10) THEN "critical"
                ELSE IF Less(roll, 35) THEN "high"
                ELSE IF Less(roll, 75) THEN "medium"
                ELSE "low",
          e |-> Drawn(e1)]))

(* ----------------------------- task creation --------------------------- *)

createFallbackTask(catId, parentId, e) ==
  Bind(generateId(e), LAMBDA id :
  Bind(selectPriority(null, null, id.e), LAMBDA priority :
  Bind(generateDueDate(priority.e), LAMBDA dueDate :
    [v |-> [id |-> id.v,
            title |-> <<"Complete", " ", "pending", " ", catId, " ", "task">>,
            category |-> catId,
            priority |-> priority.v,
            dueDate |-> dueDate.v,
            createdAt |-> toISOString(DateNow(dueDate.e)),
            completed |-> FALSE,
            completedAt |-> NoDate,
            parentId |-> parentId,
            templateKey |-> null,
            context |-> <<>>],
     e |-> Ticked(dueDate.e)])))

\* Mutant: the last category of the catalog has lost its templates.
TemplatesOf_SupportEmpty(categoryId) ==
  IF categoryId \in DOMAIN WORKFLOW_TEMPLATES \ {"support"}
  THEN WORKFLOW_TEMPLATES[categoryId] ELSE <<>>

\* Mutant: every template keeps only its first two follow-up definitions.
TemplatesOf_TwoFollowUps(categoryId) ==
  IF categoryId \in DOMAIN WORKFLOW_TEMPLATES
  THEN [k \in 1..Len(WORKFLOW_TEMPLATES[categoryId]) |->
          [WORKFLOW_TEMPLATES[categoryId][k] EXCEPT !.followUps = SubSeq(@, 1, 2)]]
  ELSE <<>>

\* WORKFLOW_TEMPLATES[categoryId]; an empty array stands for undefined.
TemplatesOf(categoryId) ==
  IF categoryId \in DOMAIN WORKFLOW_TEMPLATES
  THEN WORKFLOW_TEMPLATES[categoryId] ELSE <<>>

\* Mutant: the category asked for is ignored, a random one is taken.
createTask_AnyCategory(categoryId, parentId, e) ==
  Bind(pick(CATEGORIES, e), LAMBDA c :
  Bind(pick(TemplatesOf(c.v.id), c.e), LAMBDA wfTemplate :
  Bind(buildContext(wfTemplate.v, wfTemplate.e), LAMBDA context :
  Bind(fillWithContext(wfTemplate.v.template, context.v, context.e), LAMBDA title :
  Bind(generateId(title.e), LAMBDA id :
  Bind(selectPriority(null, null, id.e), LAMBDA priority :
  Bind(generateDueDate(priority.e), LAMBDA dueDate :
    [v |-> [id |-> id.v,
            title |-> title.v,
            category |-> c.v.id,
            priority |-> priority.v,
            dueDate |-> dueDate.v,
            createdAt |-> toISOString(DateNow(dueDate.e)),
            completed |-> FALSE,
            completedAt |-> NoDate,
            parentId |-> parentId,
            templateKey |-> wfTemplate.v.key,
            context |-> context.v],
     e |-> Ticked(dueDate.e)])))))))

\* Mutant: a missing category id is not replaced by a random category.
createTask_NoDefault(categoryId, parentId, e) ==
  Bind([v |-> IF categoryId # null THEN categoryId ELSE "undefined", e |-> e],
       LAMBDA catId :
  Bind(TemplatesOf(catId.v), LAMBDA templates :
    IF catId.v \in DOMAIN ObjectPrototype /\ ObjectPrototype[catId.v] # 0
    THEN [v |-> TypeError, e |-> Drawn(catId.e)]
    ELSE IF Len(templates) = 0
    THEN createFallbackTask(catId.v, parentId, catId.e)
    ELSE
      Bind(pick(templates, catId.e), LAMBDA wfTemplate :
      Bind(buildContext(wfTemplate.v, wfTemplate.e), LAMBDA context :
      Bind(fillWithContext(wfTemplate.v.template, context.v, context.e), LAMBDA title :
      Bind(generateId(title.e), LAMBDA id :
      Bind(selectPriority(null, null, id.e), LAMBDA priority :
      Bind(generateDueDate(priority.e), LAMBDA dueDate :
        [v |-> [id |-> id.v,
                title |-> title.v,
                category |-> catId.v,
                priority |-> priority.v,
                dueDate |-> dueDate.v,
                createdAt |-> toISOString(DateNow(dueDate.e)),
                completed |-> FALSE,
                completedAt |-> NoDate,
                parentId |-> parentId,
                templateKey |-> wfTemplate.v.key,
                context |-> context.v],
         e |-> Ticked(dueDate.e)]))))))))

\* WORKFLOW_TEMPLATES[catId] for a catId the object inherits is a function:
\* it is truthy, its length decides the guard, and pick(templates), one of
\* its numbered properties, is undefined, whose contextKeys buildContext
\* cannot read.
createTask(categoryId, parentId, e) ==
  Bind(IF categoryId # null THEN [v |-> categoryId, e |-> e]
       ELSE Bind(pick(CATEGORIES, e), LAMBDA c : [v |-> c.v.id, e |-> c.e]),
       LAMBDA catId :
  Bind(TemplatesOf(catId.v), LAMBDA templates :
    IF catId.v \in DOMAIN ObjectPrototype /\ ObjectPrototype[catId.v] # 0
    THEN [v |-> TypeError, e |-> Drawn(catId.e)]
    ELSE IF Len(templates) = 0
    THEN createFallbackTask(catId.v, parentId, catId.e)
    ELSE
      Bind(pick(templates, catId.e), LAMBDA wfTemplate :
      Bind(buildContext(wfTemplate.v, wfTemplate.e), LAMBDA context :
      Bind(fillWithContext(wfTemplate.v.template, context.v, context.e), LAMBDA title :
      Bind(generateId(title.e), LAMBDA id :
      Bind(selectPriority(null, null, id.e), LAMBDA priority :
      Bind(generateDueDate(priority.e), LAMBDA dueDate :
        [v |-> [id |-> id.v,
                title |-> title.v,
                category |-> catId.v,
                priority |-> priority.v,
                dueDate |-> dueDate.v,
                createdAt |-> toISOString(DateNow(dueDate.e)),
                completed |-> FALSE,
                completedAt |-> NoDate,
                parentId |-> parentId,
                templateKey |-> wfTemplate.v.key,
                context |-> context.v],
         e |-> Ticked(dueDate.e)]))))))))

RECURSIVE CreateEach(_, _, _, _)
\* CATEGORIES.forEach(cat => tasks.push(createTask(cat.id, null)))
CreateEach(cats, i, backlog, e) ==
  IF i > Len(cats) THEN [v |-> backlog, e |-> e]
  ELSE Bind(createTask(cats[i].id, NoId, e), LAMBDA t :
         CreateEach(cats, i + 1, Append(backlog, t.v), t.e))

RECURSIVE CreateExtra(_, _, _, _)
\* for (let i = 0; i < extra; i++) tasks.push(createTask(null, null))
CreateExtra(i, extra, backlog, e) ==
  IF i >= extra THEN [v |-> backlog, e |-> e]
  ELSE Bind(createTask(null, NoId, e), LAMBDA t :
         CreateExtra(i + 1, extra, Append(backlog, t.v), t.e))

generateInitialTasks(e) ==
  Bind(CreateEach(CATEGORIES, 1, <<>>, e), LAMBDA backlog :
  Bind(randInt(2, 4, backlog.e), LAMBDA extra :
    CreateExtra(0, extra.v, backlog.v, extra.e)))

(* --------------------------- template matcher -------------------------- *)

toLowerCase(chunk) ==
  IF chunk \in DOMAIN LowerCaseTable THEN LowerCaseTable[chunk] ELSE chunk

\* s.toLowerCase().split(/\W+/), scanning from chunk i; word is the word
\* being read.
RECURSIVE SplitFrom(_, _, _, _)
SplitFrom(s, i, word, words) ==
  IF i > Len(s) THEN Append(words, word)
  ELSE IF IsWord(s[i]) THEN SplitFrom(s, i + 1, word \o toLowerCase(s[i]), words)
  ELSE IF i > 1 /\ ~IsWord(s[i - 1]) THEN SplitFrom(s, i + 1, word, words)
  ELSE SplitFrom(s, i + 1, "", Append(words, word))

\* s.toLowerCase().split(/\W+/).filter(w => w.length > 2)
KeyWords(s) == SelectSeq(SplitFrom(s, 1, "", <<>>), LAMBDA w : Len(w) > 2)

\* titleWords.filter(w => tmplWords.includes(w)).length
Overlap(titleWords, tmplWords) ==
  Len(SelectSeq(titleWords,
                LAMBDA w : \E j \in 1..Len(tmplWords) : tmplWords[j] = w))

\* Mutant: a later template with an equal score replaces the best so far.
RECURSIVE BestFrom_LastSeen(_, _, _, _, _)
BestFrom_LastSeen(templates, i, titleWords, bestMatch, bestScore) ==
  IF i > Len(templates) THEN [match |-> bestMatch, score |-> bestScore]
  ELSE Bind(Overlap(titleWords, KeyWords(templates[i].template)), LAMBDA overlap :
         IF overlap >= bestScore
         THEN BestFrom_LastSeen(templates, i + 1, titleWords, templates[i], overlap)
         ELSE BestFrom_LastSeen(templates, i + 1, titleWords, bestMatch, bestScore))

\* The loop of findBestMatchingTemplate from template i on.
RECURSIVE BestFrom(_, _, _, _, _)
BestFrom(templates, i, titleWords, bestMatch, bestScore) ==
  IF i > Len(templates) THEN [match |-> bestMatch, score |-> bestScore]
  ELSE Bind(Overlap(titleWords, KeyWords(templates[i].template)), LAMBDA overlap :
         IF overlap > bestScore
         THEN BestFrom(templates, i + 1, titleWords, templates[i], overlap)
         ELSE BestFrom(templates, i + 1, titleWords, bestMatch, bestScore))

\* Mutant: a weak match gives null instead of a random template.
findBestMatchingTemplate_NoFallback(title, categoryId, e) ==
  Bind(TemplatesOf(categoryId), LAMBDA templates :
    IF Len(templates) = 0 THEN [v |-> NoTemplate, e |-> e]
    ELSE Bind(BestFrom(templates, 1, KeyWords(title), NoTemplate, 0), LAMBDA best :
           [v |-> IF best.score >= 2 THEN best.match ELSE NoTemplate, e |-> e]))

findBestMatchingTemplate(title, categoryId, e) ==
  Bind(TemplatesOf(categoryId), LAMBDA templates :
    IF Len(templates) = 0 THEN [v |-> NoTemplate, e |-> e]
    ELSE Bind(BestFrom(templates, 1, KeyWords(title), NoTemplate, 0), LAMBDA best :
           IF best.score >= 2 THEN [v |-> best.match, e |-> e]
           ELSE pick(templates, e)))

(* --------------------------- follow-up spawning ------------------------ *)

\* arr.find(t => t.key === templateKey), from index i; NoTemplate if none.
RECURSIVE FindKey(_, _, _)
FindKey(arr, i, templateKey) ==
  IF i > Len(arr) THEN NoTemplate
  ELSE IF arr[i].key = templateKey THEN arr[i]
  ELSE FindKey(arr, i + 1, templateKey)

\* The scan of all categories in findWorkflowTemplate, from category i.
RECURSIVE FindInAll(_, _)
FindInAll(i, templateKey) ==
  IF i > Len(TemplateCategories) THEN NoTemplate
  ELSE Bind(FindKey(TemplatesOf(TemplateCategories[i]), 1, templateKey), LAMBDA match :
         IF match # NoTemplate THEN match ELSE FindInAll(i + 1, templateKey))

\* Mutant: a key that is not found resolves to the category's first template.
findWorkflowTemplate_FirstOfCategory(templateKey, categoryId) ==
  IF Len(TemplatesOf(categoryId)) > 0 THEN TemplatesOf(categoryId)[1] ELSE NoTemplate

\* For a categoryId the object inherits, categoryTemplates is a function,
\* truthy and without a find method: calling it throws.
findWorkflowTemplate(templateKey, categoryId) ==
  IF templateKey = null THEN NoTemplate
  ELSE IF categoryId \in DOMAIN ObjectPrototype THEN TypeError
  ELSE Bind(FindKey(TemplatesOf(categoryId), 1, templateKey), LAMBDA match :
         IF match # NoTemplate THEN match ELSE FindInAll(1, templateKey))

\* Mutant: a follow-up task refers to the very context object of its parent.
ContextObject_Shared(tier, parentContext, fresh) ==
  IF tier \in {1, 2} THEN parentContext ELSE fresh

\* The object a new task's `context` refers to, given the object the parent's
\* refers to and an object no one refers to yet: `{ ...parentContext }` in
\* buildFollowUpTask and `const context = {}` in buildContext both make a
\* new object.
ContextObject(tier, parentContext, fresh) == fresh

\* Mutant: the follow-up is not linked to any template.
buildFollowUpTask_NoTemplateKey(followUpDef, parentContext, parentPriority, parentId, e) ==
  Bind(fillWithContext(followUpDef.template, parentContext, e), LAMBDA title :
  Bind(selectPriority(IF "priority" \in DOMAIN followUpDef
                      THEN followUpDef.priority ELSE null,
                      parentPriority, title.e), LAMBDA priority :
  Bind(generateId(priority.e), LAMBDA id :
  Bind(generateDueDate(id.e), LAMBDA dueDate :
    [v |-> [id |-> id.v,
            title |-> title.v,
            category |-> followUpDef.category,
            priority |-> priority.v,
            dueDate |-> dueDate.v,
            createdAt |-> toISOString(DateNow(dueDate.e)),
            completed |-> FALSE,
            completedAt |-> NoDate,
            parentId |-> parentId,
            templateKey |-> null,
            context |-> parentContext],
     e |-> Ticked(dueDate.e)]))))

\* Mutant: the follow-up gets a context built for its own template instead
\* of the parent's.
buildFollowUpTask_FreshContext(followUpDef, parentContext, parentPriority, parentId, e) ==
  Bind(fillWithContext(followUpDef.template, parentContext, e), LAMBDA title :
  Bind(selectPriority(IF "priority" \in DOMAIN followUpDef
                      THEN followUpDef.priority ELSE null,
                      parentPriority, title.e), LAMBDA priority :
  Bind(findBestMatchingTemplate(title.v, followUpDef.category, priority.e),
       LAMBDA nextWfTemplate :
  Bind(buildContext(nextWfTemplate.v, nextWfTemplate.e), LAMBDA context :
  Bind(generateId(context.e), LAMBDA id :
  Bind(generateDueDate(id.e), LAMBDA dueDate :
    [v |-> [id |-> id.v,
            title |-> title.v,
            category |-> followUpDef.category,
            priority |-> priority.v,
            dueDate |-> dueDate.v,
            createdAt |-> toISOString(DateNow(dueDate.e)),
            completed |-> FALSE,
            completedAt |-> NoDate,
            parentId |-> parentId,
            templateKey |-> nextWfTemplate.v.key,
            context |-> context.v],
     e |-> Ticked(dueDate.e)]))))))

buildFollowUpTask(followUpDef, parentContext, parentPriority, parentId, e) ==
  Bind(fillWithContext(followUpDef.template, parentContext, e), LAMBDA title :
  Bind(selectPriority(IF "priority" \in DOMAIN followUpDef
                      THEN followUpDef.priority ELSE null,
                      parentPriority, title.e), LAMBDA priority :
  Bind(findBestMatchingTemplate(title.v, followUpDef.category, priority.e),
       LAMBDA nextWfTemplate :
  Bind(generateId(nextWfTemplate.e), LAMBDA id :
  Bind(generateDueDate(id.e), LAMBDA dueDate :
    [v |-> [id |-> id.v,
            title |-> title.v,
            category |-> followUpDef.category,
            priority |-> priority.v,
            dueDate |-> dueDate.v,
            createdAt |-> toISOString(DateNow(dueDate.e)),
            completed |-> FALSE,
            completedAt |-> NoDate,
            parentId |-> parentId,
            templateKey |-> IF nextWfTemplate.v # NoTemplate
                            THEN nextWfTemplate.v.key ELSE null,
            context |-> parentContext],
     e |-> Ticked(dueDate.e)])))))

\* Mutant: definitions already used in this call stay available.
spawnContextualFollowUp_Reuses(wfTemplate, parentContext, parentPriority, parentId, usedTemplates, e) ==
  Bind(pick(wfTemplate.followUps, e), LAMBDA followUp :
  Bind(buildFollowUpTask(followUp.v, parentContext, parentPriority,
                         parentId, followUp.e), LAMBDA task :
    [v |-> task.v, def |-> followUp.v,
     usedTemplates |-> usedTemplates \cup {followUp.v.template},
     e |-> task.e]))

\* Returns the task (NoTask for null), the definition chosen and the used set.
spawnContextualFollowUp(wfTemplate, parentContext, parentPriority, parentId, usedTemplates, e) ==
  Bind(SelectSeq(wfTemplate.followUps, LAMBDA f : f.template \notin usedTemplates),
       LAMBDA available :
    IF Len(available) = 0
    THEN [v |-> NoTask, def |-> NoDef, usedTemplates |-> usedTemplates, e |-> e]
    ELSE Bind(pick(available, e), LAMBDA followUp :
         Bind(buildFollowUpTask(followUp.v, parentContext, parentPriority,
                                parentId, followUp.e), LAMBDA task :
           [v |-> task.v, def |-> followUp.v,
            usedTemplates |-> usedTemplates \cup {followUp.v.template},
            e |-> task.e])))

\* A field of a Task handed in from outside; absent reads as undefined.
Field(task, name, undefined) ==
  IF name \in DOMAIN task THEN task[name] ELSE undefined

\* One more slot filled: the task pushed, the tier that produced it, the
\* definition it chose (NoDef in Tier 3), the catId Tier 3 handed to
\* createTask (null in Tiers 1 and 2), and the environment at the start
\* and at the end of the pass.
Pushed(st, task, tier, roll, def, catId, usedTemplates, e) ==
  [newTasks |-> Append(st.newTasks, task),
   usedTemplates |-> usedTemplates,
   slots |-> Append(st.slots, [tier |-> tier, roll |-> roll, def |-> def,
                               catId |-> catId, at |-> st.e, end |-> e]),
   e |-> e]

\* Mutant: a slot whose Tier 2 pool is empty is skipped, no fresh task.
CrossCategoryOrFresh_SkipsSlot(task, wfTemplate, roll, st, e) ==
  Bind(IF wfTemplate # NoTemplate /\ Len(wfTemplate.followUps) > 0 /\ Less(roll, 90)
       THEN SelectSeq(wfTemplate.followUps,
              LAMBDA f : /\ f.category # Field(task, "category", null)
                         /\ f.template \notin st.usedTemplates)
       ELSE <<>>, LAMBDA crossCat :
    IF Len(crossCat) > 0
    THEN Bind(pick(crossCat, e), LAMBDA followUp :
         Bind(buildFollowUpTask(followUp.v, Field(task, "context", <<>>),
                Field(task, "priority", null), Field(task, "id", NoId), followUp.e),
              LAMBDA built :
           Pushed(st, built.v, 2, roll, followUp.v, null,
                  st.usedTemplates \cup {followUp.v.template}, built.e)))
    ELSE [st EXCEPT !.e = e])

\* Mutant: Tier 2 takes any unused definition, same category included.
CrossCategoryOrFresh_AnyCategory(task, wfTemplate, roll, st, e) ==
  Bind(IF wfTemplate # NoTemplate /\ Len(wfTemplate.followUps) > 0 /\ Less(roll, 90)
       THEN SelectSeq(wfTemplate.followUps,
              LAMBDA f : f.template \notin st.usedTemplates)
       ELSE <<>>, LAMBDA crossCat :
    IF Len(crossCat) > 0
    THEN Bind(pick(crossCat, e), LAMBDA followUp :
         Bind(buildFollowUpTask(followUp.v, Field(task, "context", <<>>),
                Field(task, "priority", null), Field(task, "id", NoId), followUp.e),
              LAMBDA built :
           Pushed(st, built.v, 2, roll, followUp.v, null,
                  st.usedTemplates \cup {followUp.v.template}, built.e)))
    ELSE Bind(Less(Random(e), 50), LAMBDA useSameCategory :
         Bind(IF useSameCategory THEN Field(task, "category", null) ELSE null,
              LAMBDA catId :
         Bind(createTask(catId, Field(task, "id", NoId), Drawn(e)), LAMBDA created :
           Pushed(st, created.v, 3, roll, NoDef, catId, st.usedTemplates, created.e)))))

\* Mutant: the fresh task of Tier 3 is created without a parent.
CrossCategoryOrFresh_NoParent(task, wfTemplate, roll, st, e) ==
  Bind(IF wfTemplate # NoTemplate /\ Len(wfTemplate.followUps) > 0 /\ Less(roll, 90)
       THEN SelectSeq(wfTemplate.followUps,
              LAMBDA f : /\ f.category # Field(task, "category", null)
                         /\ f.template \notin st.usedTemplates)
       ELSE <<>>, LAMBDA crossCat :
    IF Len(crossCat) > 0
    THEN Bind(pick(crossCat, e), LAMBDA followUp :
         Bind(buildFollowUpTask(followUp.v, Field(task, "context", <<>>),
                Field(task, "priority", null), Field(task, "id", NoId), followUp.e),
              LAMBDA built :
           Pushed(st, built.v, 2, roll, followUp.v, null,
                  st.usedTemplates \cup {followUp.v.template}, built.e)))
    ELSE Bind(Less(Random(e), 50), LAMBDA useSameCategory :
         Bind(IF useSameCategory THEN Field(task, "category", null) ELSE null,
              LAMBDA catId :
         Bind(createTask(catId, NoId, Drawn(e)), LAMBDA created :
           Pushed(st, created.v, 3, roll, NoDef, catId, st.usedTemplates, created.e)))))

\* Tier 2 and Tier 3 of one slot, after Tier 1 was not taken or gave null.
CrossCategoryOrFresh(task, wfTemplate, roll, st, e) ==
  Bind(IF wfTemplate # NoTemplate /\ Len(wfTemplate.followUps) > 0 /\ Less(roll, 90)
       THEN SelectSeq(wfTemplate.followUps,
              LAMBDA f : /\ f.category # Field(task, "category", null)
                         /\ f.template \notin st.usedTemplates)
       ELSE <<>>, LAMBDA crossCat :
    IF Len(crossCat) > 0
    THEN Bind(pick(crossCat, e), LAMBDA followUp :
         Bind(buildFollowUpTask(followUp.v, Field(task, "context", <<>>),
                Field(task, "priority", null), Field(task, "id", NoId), followUp.e),
              LAMBDA built :
           Pushed(st, built.v, 2, roll, followUp.v, null,
                  st.usedTemplates \cup {followUp.v.template}, built.e)))
    ELSE Bind(Less(Random(e), 50), LAMBDA useSameCategory :
         Bind(IF useSameCategory THEN Field(task, "category", null) ELSE null,
              LAMBDA catId :
         Bind(createTask(catId, Field(task, "id", NoId), Drawn(e)), LAMBDA created :
           Pushed(st, created.v, 3, roll, NoDef, catId, st.usedTemplates, created.e)))))

\* Mutant: Tier 1 is tried whatever the roll.
SpawnSlot_AnyRoll(task, wfTemplate, st) ==
  Bind(Random(st.e), LAMBDA roll :
  Bind(IF wfTemplate # NoTemplate /\ Len(wfTemplate.followUps) > 0
       THEN spawnContextualFollowUp(wfTemplate, Field(task, "context", <<>>),
              Field(task, "priority", null), Field(task, "id", NoId),
              st.usedTemplates, Drawn(st.e))
       ELSE [v |-> NoTask, def |-> NoDef, usedTemplates |-> st.usedTemplates,
             e |-> Drawn(st.e)], LAMBDA tier1 :
    IF tier1.v # NoTask
    THEN Pushed(st, tier1.v, 1, roll, tier1.def, null, tier1.usedTemplates, tier1.e)
    ELSE CrossCategoryOrFresh(task, wfTemplate, roll, st, tier1.e)))

\* One pass of the for loop of spawnFollowUps.
SpawnSlot(task, wfTemplate, st) ==
  Bind(Random(st.e), LAMBDA roll :
  Bind(IF wfTemplate # NoTemplate /\ Len(wfTemplate.followUps) > 0 /\ Less(roll, 70)
       THEN spawnContextualFollowUp(wfTemplate, Field(task, "context", <<>>),
              Field(task, "priority", null), Field(task, "id", NoId),
              st.usedTemplates, Drawn(st.e))
       ELSE [v |-> NoTask, def |-> NoDef, usedTemplates |-> st.usedTemplates,
             e |-> Drawn(st.e)], LAMBDA tier1 :
    IF tier1.v # NoTask
    THEN Pushed(st, tier1.v, 1, roll, tier1.def, null, tier1.usedTemplates, tier1.e)
    ELSE CrossCategoryOrFresh(task, wfTemplate, roll, st, tier1.e)))

\* The for loop of spawnFollowUps from slot i on.  st holds newTasks,
\* usedTemplates, the environment and the slots' record.
RECURSIVE SpawnLoop(_, _, _, _, _)
SpawnLoop(task, wfTemplate, i, count, st) ==
  IF i >= count THEN st
  ELSE SpawnLoop(task, wfTemplate, i + 1, count, SpawnSlot(task, wfTemplate, st))

\* Returns newTasks (v), the count drawn and the slots' record.
spawnFollowUps(task, e) ==
  Bind(randInt(1, 3, e), LAMBDA count :
  Bind(SpawnLoop(task,
                 findWorkflowTemplate(Field(task, "templateKey", null),
                                      Field(task, "category", null)),
                 0, count.v,
                 [newTasks |-> <<>>, usedTemplates |-> {}, slots |-> <<>>,
                  e |-> count.e]), LAMBDA st :
    [v |-> st.newTasks, count |-> count.v, slots |-> st.slots, e |-> st.e]))


(* ------------------------- popup and storage --------------------------- *)

\* Tasks of the backlog generateInitialTasks gives the popup on first run:
\* one per category and 2 to 4 more.
BacklogSize == 10

\* Checkbox clicks followed per run of the popup.
MaxClicks == 3

\* The user clicks only the cards of the tasks with an id up to this one.
ClickableTasks == 2

\* Midnights that pass while the popup is open.
MaxDays == 1

\* No object held yet.
NoHeap == <<>>

\* popup.js `tasks` after initBusinessMode: the backlog, every task Active.
\* A task object is known by its id.
InitialTasks ==
  [k \in 1..BacklogSize |-> [id |-> k, completed |-> FALSE, completedAt |-> NoDate]]

\* popup.js `stats` after initBusinessMode on day 0.  The per-category
\* counts, which no step of the handler reads back, are left out.
InitialStats ==
  [totalCompleted |-> 0, totalSpawned |-> 0, completedToday |-> 0,
   lastActiveDate |-> 0, streak |-> 0, longestStreak |-> 0]

\* The ids of the task objects of a list.
TaskIds(arr) == {arr[k].id : k \in 1..Len(arr)}

\* tasks.findIndex(t => t.id === taskId): 0-based, -1 if none, from index i.
RECURSIVE FindIndexFrom(_, _, _)
FindIndexFrom(arr, i, taskId) ==
  IF i > Len(arr) THEN -1
  ELSE IF arr[i].id = taskId THEN i - 1
  ELSE FindIndexFrom(arr, i + 1, taskId)

findIndex(arr, taskId) == FindIndexFrom(arr, 1, taskId)

\* arr.splice(index, 1) for a 0-based index >= 0.
splice(arr, index) ==
  IF index >= Len(arr) THEN arr
  ELSE SubSeq(arr, 1, index) \o SubSeq(arr, index + 2, Len(arr))

\* arr.unshift(...items)
unshift(arr, items) == items \o arr

\* completedTask.completed = true; completedTask.completedAt = new Date():
\* the object is changed wherever the list holds it.
Completed(arr, taskId, day) ==
  [k \in 1..Len(arr) |->
     IF arr[k].id = taskId
     THEN [arr[k] EXCEPT !.completed = TRUE, !.completedAt = day]
     ELSE arr[k]]

\* tasks.filter(t => !t.completed), filter "all": the tasks renderTasks shows.
getFilteredTasks(arr) == SelectSeq(arr, LAMBDA t : ~t.completed)

\* The body of StorageManager.recordCompletion between loadStats and
\* saveStats: the statistics to save, from those loaded.
recordCompletion(loaded, spawnedCount, day) ==
  Bind([loaded EXCEPT !.totalCompleted = @ + 1,
                      !.totalSpawned = @ + spawnedCount], LAMBDA counted :
  Bind(IF counted.lastActiveDate = day
       THEN [counted EXCEPT !.completedToday = @ + 1]
       ELSE [counted EXCEPT !.streak = IF counted.lastActiveDate = day - 1
                                       THEN @ + 1 ELSE 1,
                            !.completedToday = 1,
                            !.lastActiveDate = day], LAMBDA dated :
    IF dated.streak > dated.longestStreak
    THEN [dated EXCEPT !.longestStreak = dated.streak]
    ELSE dated))

\* The number of tasks the spawnFollowUps calls so far returned, from call i.
RECURSIVE SpawnedFrom(_, _)
SpawnedFrom(made, i) ==
  IF i > Len(made) THEN 0 ELSE Len(made[i].newTasks) + SpawnedFrom(made, i + 1)

\* The tasks one spawnFollowUps call returns to the popup: count new Active
\* task objects whose ids no other task has.
NewTasks(made, count) ==
  [k \in 1..count |->
     [id |-> BacklogSize + SpawnedFrom(made, 1) + k,
      completed |-> FALSE, completedAt |-> NoDate]]
(* ------------------------------ inputs --------------------------------- *)

\* Seeds of the random source tried along completion chains.
ChainSeed(k) == <<(k * 7 + 3) % Grid, (k * 11 + 6) % Grid, (k * 13 + 1) % Grid>>
ChainSeeds == {ChainSeed(k) : k \in 1..NSeeds}

\* The least draws for which randInt(1, 3) is 1, 2 and 3.
CountDraws == {(n * Grid + 2) \div 3 : n \in 0..2}

\* Seeds of the random source tried on a single call: each count, then every
\* second and third draw (the first slot's roll and its pick).
CallSeeds == {<<a, b, c>> : a \in CountDraws, b \in 0..(Grid - 1), c \in 0..(Grid - 1)}

\* "Prepare proposal for Acme Corp": a completed sales task of the
\* sales_proposal template with context {company: "Acme Corp"}.
AcmeTask ==
  [id |-> [time |-> 0, suffix |-> 0],
   title |-> <<"Prepare", " ", "proposal", " ", "for", " ", "Acme", " ", "Corp">>,
   category |-> "sales",
   priority |-> "high",
   dueDate |-> toISOString(DayMs),
   createdAt |-> toISOString(0),
   completed |-> FALSE,
   completedAt |-> NoDate,
   parentId |-> NoId,
   templateKey |-> "sales_proposal",
   context |-> [company |-> <<"Acme", " ", "Corp">>]]

\* task without the field name.
Without(task, name) == [f \in DOMAIN task \ {name} |-> task[f]]

\* Tasks a collaborator may hand to spawnFollowUps.
ExternalTasks ==
  { AcmeTask,
    \* a template whose definitions carry a priority override and four bridges
    [AcmeTask EXCEPT !.templateKey = "sales_negotiate", !.priority = "low",
                     !.title = <<"Negotiate", " ", "contract", " ", "terms", " ",
                                 "with", " ", "Acme", " ", "Corp">>],
    \* no templateKey
    [AcmeTask EXCEPT !.templateKey = null, !.context = <<>>,
                     !.title = <<"Complete", " ", "pending", " ", "sales", " ", "task">>],
    \* a templateKey the catalog does not hold
    [AcmeTask EXCEPT !.templateKey = "sales_legacy"],
    \* no context
    Without(AcmeTask, "context"),
    \* no category
    Without(AcmeTask, "category"),
    \* a category the catalog does not hold
    [AcmeTask EXCEPT !.category = "legal", !.templateKey = null, !.context = <<>>,
                     !.title = <<"Complete", " ", "pending", " ", "legal", " ", "task">>] }

(* --------------------------- state machine ----------------------------- *)

Init ==
  /\ handed = NoTask
  /\ returned = <<>>
  /\ drew = NoSpawn
  /\ phase = "start"
  /\ depth = 0
  /\ clock = 0
  /\ lineage = <<>>
  /\ origin = NoTask
  /\ replayed = NoSpawn
  /\ heap = NoHeap
  /\ tasks = InitialTasks
  /\ stats = InitialStats
  /\ storage = [vantage_tasks |-> InitialTasks, vantage_stats |-> InitialStats]
  /\ taskList = [id \in TaskIds(InitialTasks) |-> FALSE]
  /\ handlers = <<>>
  /\ pending = <<>>
  /\ today = 0
  /\ calls = <<>>

\* First run: the backlog is generateInitialTasks().
GenerateInitialTasks(seeds, dts) ==
  /\ phase = "start"
  /\ \E seed \in seeds, dt \in dts :
       \E r \in {generateInitialTasks(Env(seed, clock, dt))} :
          /\ returned' = r.v
          /\ clock' = r.e.clock
  /\ phase' = "backlog"
  /\ UNCHANGED <<handed, drew, depth, lineage, origin, replayed, heap, popupVars>>

\* spawnFollowUps(task) under one seed and clock advance.
Spawn(task, seed, dt) ==
  \E r \in {spawnFollowUps(task, Env(seed, clock, dt))} :
     /\ handed' = task
     /\ returned' = r.v
     /\ drew' = [count |-> r.count, slots |-> r.slots]
     /\ clock' = r.e.clock
     /\ phase' = "spawned"

\* The user completes one of the tasks the engine produced.
CompleteTask(seeds, dts) ==
  /\ phase \in {"backlog", "spawned"}
  /\ depth < MaxDepth
  /\ \E k \in 1..Len(returned), seed \in seeds, dt \in dts :
       /\ Spawn(returned[k], seed, dt)
       /\ lineage' = Append(lineage, IF phase = "backlog" THEN 0 ELSE drew.slots[k].tier)
       /\ origin' = IF phase = "spawned" /\ drew.slots[k].tier \in {1, 2}
                    THEN origin ELSE returned[k]
  /\ depth' = depth + 1
  /\ UNCHANGED <<replayed, heap, popupVars>>

\* A collaborator hands in a task of its own.
CompleteExternal(seeds, dts) ==
  /\ phase = "start"
  /\ \E task \in ExternalTasks, seed \in seeds, dt \in dts :
       /\ Spawn(task, seed, dt)
       /\ origin' = task
  /\ UNCHANGED <<depth, lineage, replayed, heap, popupVars>>

\* Completion chains from the initial backlog.
StartBacklog == GenerateInitialTasks(ChainSeeds, {MaxDt})
CompleteInChain == CompleteTask(ChainSeeds, {MaxDt})

Next == StartBacklog \/ CompleteInChain

Spec == Init /\ [][Next]_vars

\* One call of the engine's interface: spawnFollowUps on a task handed in
\* from outside, or generateInitialTasks.
CallSpawn == CompleteExternal(CallSeeds, 0..MaxDt)
CallBacklog == GenerateInitialTasks(CallSeeds, 0..MaxDt)

\* The draws of the scenarios on AcmeTask: the count drawn is 1, the roll is
\* 0.3, 0.8 or 0.95, the two draws after the roll are free.
ScenarioSeeds ==
  {<<0, (percent * Grid) \div 100, c, d>> :
     percent \in {30, 80, 95}, c \in 0..(Grid - 1), d \in 0..(Grid - 1)}

\* spawnFollowUps(AcmeTask) with one slot and the tier roll forced.
CallScenario ==
  /\ phase = "start"
  /\ \E seed \in ScenarioSeeds, dt \in 0..MaxDt :
       /\ Spawn(AcmeTask, seed, dt)
       /\ origin' = AcmeTask
  /\ UNCHANGED <<depth, lineage, replayed, heap, popupVars>>

\* The draws and the delays of the runs that are repeated.
ReplaySeeds == {<<a, b, (3 * b + 1) % Grid>> : a \in CountDraws, b \in 0..(Grid - 1)}
ReplayDelays == {0, 1, DayMs}

\* spawnFollowUps(task) run twice on the same task with the same draws, the
\* second run beginning later milliseconds after the first began.
CallTwice ==
  /\ phase = "start"
  /\ \E task \in ExternalTasks, seed \in ReplaySeeds, dt \in 0..MaxDt,
        later \in ReplayDelays :
       \E second \in {spawnFollowUps(task, Env(seed, clock + later, dt))} :
          /\ Spawn(task, seed, dt)
          /\ replayed' = [v |-> second.v, later |-> later]
          /\ origin' = task
  /\ UNCHANGED <<depth, lineage, heap, popupVars>>

\* The category ids createTask is asked for: the catalog's, none, one the
\* catalog lacks, and two that object literals inherit.
CreateCategories ==
  {CATEGORIES[c].id : c \in 1..Len(CATEGORIES)} \cup {null, "legal", "constructor", "toString"}

\* The draws of a single createTask call.
CreateSeeds ==
  {<<a, b, (a + b) % Grid>> : a \in 0..(Grid - 1), b \in {0, Grid \div 2, Grid - 1}}

\* createTask(categoryId, parentId) through the public API.
CallCreate ==
  /\ phase = "start"
  /\ \E categoryId \in CreateCategories, parentId \in {NoId, AcmeTask.id},
        seed \in CreateSeeds :
       \E r \in {createTask(categoryId, parentId, Env(seed, clock, MaxDt))} :
          /\ handed' = [categoryId |-> categoryId, parentId |-> parentId]
          /\ returned' = IF r.v = TypeError THEN <<>> ELSE <<r.v>>
          /\ phase' = IF r.v = TypeError THEN "threw" ELSE "created"
          /\ clock' = r.e.clock
  /\ UNCHANGED <<drew, depth, lineage, origin, replayed, heap, popupVars>>

\* The keys findWorkflowTemplate is asked for: every key of the catalog,
\* none, and one the catalog lacks.
FindKeys ==
  UNION { {TemplatesOf(CATEGORIES[c].id)[k].key : k \in 1..Len(TemplatesOf(CATEGORIES[c].id))} :
            c \in 1..Len(CATEGORIES) }
    \cup {null, "sales_legacy"}

\* The category hints: the catalog's ids, none, one the catalog lacks and
\* one that object literals inherit.
FindHints ==
  {CATEGORIES[c].id : c \in 1..Len(CATEGORIES)} \cup {null, "legal", "constructor"}

\* findWorkflowTemplate(templateKey, categoryId), as spawnFollowUps calls it
\* with the templateKey and the category of the task handed in.
CallFind ==
  /\ phase = "start"
  /\ \E templateKey \in FindKeys, categoryId \in FindHints :
       \E r \in {findWorkflowTemplate(templateKey, categoryId)} :
          /\ handed' = [templateKey |-> templateKey, category |-> categoryId]
          /\ returned' = IF r = TypeError THEN <<>> ELSE <<r>>
          /\ phase' = IF r = TypeError THEN "threw" ELSE "found"
  /\ UNCHANGED <<drew, depth, clock, lineage, origin, replayed, heap, popupVars>>

\* The draws of a context and of the title filled after it.
FillSeeds == {<<a, (3 * a + 1) % Grid, (7 * a + 2) % Grid>> : a \in {0, 5, 11, Grid - 1}}

\* The patterns of template t, its own and its follow-ups', and one pattern
\* with a key the generator has no options for.
PatternsOf(t) ==
  {t.template} \cup {t.followUps[k].template : k \in 1..Len(t.followUps)}
    \cup {<<"Review", " ", "{", "widget", "}", " ", "for", " ", "{", "company", "}",
           " ", "in", " ", "{", "month", "}">>}

\* The contexts a pattern of template t is filled with: the one buildContext
\* gives t, that context without one of its keys, and the empty one.
ContextsOf(t, e) ==
  {buildContext(t, e).v, <<>>}
    \cup {Without(buildContext(t, e).v, key) : key \in DOMAIN buildContext(t, e).v}

\* fillWithContext(template, context) on its own.
CallFill ==
  /\ phase = "start"
  /\ \E c \in 1..Len(CATEGORIES), seed \in FillSeeds :
       \E k \in 1..Len(TemplatesOf(CATEGORIES[c].id)) :
         \E template \in PatternsOf(TemplatesOf(CATEGORIES[c].id)[k]),
            context \in ContextsOf(TemplatesOf(CATEGORIES[c].id)[k], Env(seed, clock, 0)) :
           /\ handed' = [template |-> template, context |-> context]
           /\ returned' = <<fillWithContext(template, context,
                              buildContext(TemplatesOf(CATEGORIES[c].id)[k],
                                           Env(seed, clock, 0)).e).v>>
  /\ phase' = "filled"
  /\ UNCHANGED <<drew, depth, clock, lineage, origin, replayed, heap, popupVars>>

\* The titles Tier 1 or 2 gives the follow-ups of the template with that
\* key when the completed task carries that context.
FollowUpTitles(templateKey, categoryId, context) ==
  { fillWithContext(def.template, context, Env(<<0, 0, 0>>, 0, 0)).v :
      def \in { findWorkflowTemplate(templateKey, categoryId).followUps[k] : k \in 1..4 } }

\* Follow-ups of a research session and of an A/B test: titles that hold a
\* word some pattern of the category uses as a placeholder key.
ResearchTitles ==
  FollowUpTitles("prod_research", "product", [num |-> 12])
    \cup FollowUpTitles("mkt_ab_test", "marketing", [variant |-> <<"A">>])

\* The titles the matcher is asked about: those Tier 1 or 2 gives the
\* follow-ups of a handed task, a title with no key word, the empty title.
MatcherTitles ==
  { fillWithContext(def.template, AcmeTask.context, Env(<<0, 0, 0>>, 0, 0)).v :
      def \in UNION { {t.followUps[k] : k \in 1..Len(t.followUps)} :
                        t \in { findWorkflowTemplate(task.templateKey, task.category) :
                                  task \in {x \in ExternalTasks :
                                              /\ "category" \in DOMAIN x
                                              /\ x.templateKey \in {"sales_proposal",
                                                                    "sales_negotiate"}} } } }
    \cup {<<"Do", " ", "it">>, <<>>}
    \cup ResearchTitles

\* The category ids it is asked about: the catalog's and one it lacks.
MatcherCategories == {CATEGORIES[c].id : c \in 1..Len(CATEGORIES)} \cup {"legal"}

\* findBestMatchingTemplate(title, categoryId) on its own.
CallMatcher ==
  /\ phase = "start"
  /\ \E title \in MatcherTitles, categoryId \in MatcherCategories, k \in 0..(Grid - 1) :
       \E r \in {findBestMatchingTemplate(title, categoryId, Env(<<k, k, k>>, clock, 0))} :
          /\ handed' = [title |-> title, category |-> categoryId]
          /\ returned' = <<r.v>>
  /\ phase' = "matched"
  /\ UNCHANGED <<drew, depth, clock, lineage, origin, replayed, heap, popupVars>>

NextCall ==
  CallSpawn \/ CallScenario \/ CallTwice \/ CallBacklog \/ CallCreate \/ CallFind \/ CallFill
    \/ CallMatcher

SpecCall == Init /\ [][NextCall]_vars


(* --------------------- popup: handleCompleteTask ----------------------- *)

\* The handler is written [task, taskIndex, newTasks, stats, pc]: the id of
\* completedTask, the index found at the click, the tasks spawnFollowUps
\* returned, the statistics recordCompletion works on, and the await it is
\* suspended at: "delay400", "delay500", "loadStats", "saveStats",
\* "saveTasks", or "done".

\* Timers of equal delay fire in the order they were set: a handler's
\* delay ends only after the same delay of every earlier click has ended.
TimerDue(h, waits) == \A g \in 1..(h - 1) : handlers[g].pc \notin waits

\* A click on the checkbox of a rendered card: the guard against a second
\* click, the lookup of the task, the class "completing", and delay(400).
ClickCheckbox ==
  /\ Len(handlers) < MaxClicks
  /\ \E taskId \in DOMAIN taskList :
       /\ taskId <= ClickableTasks
       /\ ~taskList[taskId]
       /\ findIndex(tasks, taskId) # -1
       /\ taskList' = [taskList EXCEPT ![taskId] = TRUE]
       /\ handlers' = Append(handlers,
                        [task |-> taskId, taskIndex |-> findIndex(tasks, taskId),
                         newTasks |-> <<>>, stats |-> InitialStats, pc |-> "delay400"])
  /\ UNCHANGED <<tasks, stats, storage, pending, today, calls>>
  /\ UNCHANGED <<engineVars, heap>>

\* delay(400) is over: the card animates out, TaskEngine.spawnFollowUps
\* returns 1 to 3 new tasks, and the handler waits delay(500).
AfterDelay400 ==
  /\ \E h \in 1..Len(handlers), count \in 1..3 :
       /\ handlers[h].pc = "delay400"
       /\ TimerDue(h, {"delay400"})
       /\ handlers' = [handlers EXCEPT ![h].newTasks = NewTasks(calls, count),
                                       ![h].pc = "delay500"]
       /\ calls' = Append(calls, [task |-> handlers[h].task,
                                  newTasks |-> NewTasks(calls, count)])
  /\ UNCHANGED <<tasks, stats, storage, taskList, pending, today>>
  /\ UNCHANGED <<engineVars, heap>>

\* delay(500) is over: the task is marked completed, tasks.splice(taskIndex, 1)
\* and tasks.unshift(...newTasks) run, and recordCompletion asks the storage
\* for the statistics.
AfterDelay500 ==
  /\ \E h \in 1..Len(handlers) :
       /\ handlers[h].pc = "delay500"
       /\ TimerDue(h, {"delay400", "delay500"})
       /\ tasks' = unshift(splice(Completed(tasks, handlers[h].task, today),
                                  handlers[h].taskIndex),
                           handlers[h].newTasks)
       /\ pending' = Append(pending, [op |-> "get", key |-> "vantage_stats",
                                      value |-> NoTask, handler |-> h])
       /\ handlers' = [handlers EXCEPT ![h].pc = "loadStats"]
  /\ UNCHANGED <<stats, storage, taskList, today, calls>>
  /\ UNCHANGED <<engineVars, heap>>

\* The storage answers the oldest request, a get of the statistics:
\* recordCompletion updates what it loaded and asks the storage to save it.
StatsLoaded ==
  /\ pending # <<>>
  /\ Head(pending).op = "get"
  /\ \E h \in {Head(pending).handler} :
       \E updated \in {recordCompletion(storage.vantage_stats,
                                        Len(handlers[h].newTasks), today)} :
          /\ handlers' = [handlers EXCEPT ![h].stats = updated, ![h].pc = "saveStats"]
          /\ pending' = Append(Tail(pending),
                               [op |-> "set", key |-> "vantage_stats",
                                value |-> updated, handler |-> h])
  /\ UNCHANGED <<tasks, stats, storage, taskList, today, calls>>
  /\ UNCHANGED <<engineVars, heap>>

\* The storage answers the oldest request, a set of the statistics:
\* recordCompletion returns them, the handler assigns `stats` and asks the
\* storage to save `tasks` as they are now.
StatsSaved ==
  /\ pending # <<>>
  /\ Head(pending).op = "set"
  /\ Head(pending).key = "vantage_stats"
  /\ \E h \in {Head(pending).handler} :
       /\ storage' = [storage EXCEPT !.vantage_stats = Head(pending).value]
       /\ stats' = handlers[h].stats
       /\ pending' = Append(Tail(pending),
                            [op |-> "set", key |-> "vantage_tasks",
                             value |-> tasks, handler |-> h])
       /\ handlers' = [handlers EXCEPT ![h].pc = "saveTasks"]
  /\ UNCHANGED <<tasks, taskList, today, calls>>
  /\ UNCHANGED <<engineVars, heap>>

\* The storage answers the oldest request, a set of the tasks: the handler
\* re-renders the list, one fresh card per task that is not completed.
TasksSaved ==
  /\ pending # <<>>
  /\ Head(pending).op = "set"
  /\ Head(pending).key = "vantage_tasks"
  /\ \E h \in {Head(pending).handler} :
       /\ storage' = [storage EXCEPT !.vantage_tasks = Head(pending).value]
       /\ taskList' = [id \in TaskIds(getFilteredTasks(tasks)) |-> FALSE]
       /\ pending' = Tail(pending)
       /\ handlers' = [handlers EXCEPT ![h].pc = "done"]
  /\ UNCHANGED <<tasks, stats, today, calls>>
  /\ UNCHANGED <<engineVars, heap>>

\* Midnight passes.
Midnight ==
  /\ today < MaxDays
  /\ today' = today + 1
  /\ UNCHANGED <<tasks, stats, storage, taskList, handlers, pending, calls>>
  /\ UNCHANGED <<engineVars, heap>>

NextPopup ==
  ClickCheckbox \/ AfterDelay400 \/ AfterDelay500 \/ StatsLoaded \/ StatsSaved
    \/ TasksSaved \/ Midnight

SpecPopup == Init /\ [][NextPopup]_vars

(* ------------------- a caller holding the task objects ----------------- *)

\* Writes a caller makes to the contexts of the tasks it was returned.
MaxEdits == 1

\* Seeds of the calls whose objects are followed.
HeldSeeds == {<<a, b, (3 * b + 1) % Grid>> : a \in CountDraws, b \in 0..(Grid - 1)}

\* The tasks a caller holds and completes: they have an id and a context.
HeldTasks == {task \in ExternalTasks : /\ "context" \in DOMAIN task
                                       /\ "category" \in DOMAIN task
                                       /\ task.context # <<>>}

\* The objects after spawnFollowUps(task) returned newTasks: the context
\* objects by reference (1 is the one the completed task refers to), the
\* completed task and the returned tasks with the reference each holds.
Allocated(task, newTasks, slots) ==
  [contexts |-> <<task.context>> \o [i \in 1..Len(newTasks) |-> newTasks[i].context],
   parent |-> [task EXCEPT !.context = 1],
   children |-> [i \in 1..Len(newTasks) |->
                   [newTasks[i] EXCEPT !.context = ContextObject(slots[i].tier, 1, 1 + i)]],
   edits |-> 0]

\* A caller completes a task it holds: TaskEngine.spawnFollowUps(completedTask).
HoldSpawn ==
  /\ phase = "start"
  /\ \E task \in HeldTasks, seed \in HeldSeeds :
       \E r \in {spawnFollowUps(task, Env(seed, clock, 0))} :
          /\ handed' = task
          /\ returned' = r.v
          /\ drew' = [count |-> r.count, slots |-> r.slots]
          /\ clock' = r.e.clock
          /\ heap' = Allocated(task, r.v, r.slots)
  /\ phase' = "spawned"
  /\ UNCHANGED <<depth, lineage, origin, replayed, popupVars>>

\* The caller marks the task completed, as handleCompleteTask does after
\* the call: completedTask.completed = true; completedTask.completedAt = now.
CallerFlips ==
  /\ heap # NoHeap
  /\ ~heap.parent.completed
  /\ heap' = [heap EXCEPT !.parent.completed = TRUE,
                          !.parent.completedAt = toISOString(clock)]
  /\ UNCHANGED <<engineVars, popupVars>>

\* The caller writes a property into the context of a task it was returned.
CallerEdits ==
  /\ heap # NoHeap
  /\ heap.edits < MaxEdits
  /\ \E i \in 1..Len(heap.children) :
       heap' = [heap EXCEPT
                  !.contexts[heap.children[i].context] =
                     [key \in DOMAIN @ \cup {"note"} |->
                        IF key = "note" THEN <<"edited">> ELSE @[key]],
                  !.edits = @ + 1]
  /\ UNCHANGED <<engineVars, popupVars>>

NextHeld == HoldSpawn \/ CallerFlips \/ CallerEdits

SpecHeld == Init /\ [][NextHeld]_vars
(* ------------------------------ properties ----------------------------- *)

\* The instant an ISO timestamp names, in milliseconds.
Instant(iso) == iso.day * DayMs + iso.ms

\* str.includes(part), for a part that starts and ends at chunk borders.
Includes(str, part) ==
  \E i \in 0..(Len(str) - Len(part)) : SubSeq(str, i + 1, i + Len(part)) = part

AcmeCorp == <<"Acme", " ", "Corp">>

\* The draw that stands for Math.random() = percent / 100.
Forced(percent) == (percent * Grid) \div 100

\* The template the handed task resolves to.
HandedTemplate ==
  findWorkflowTemplate(Field(handed, "templateKey", null),
                       Field(handed, "category", null))

\* The slots of the last spawnFollowUps call that Tier 1 or Tier 2 filled.
ContextualSlots ==
  IF phase = "spawned"
  THEN {i \in 1..Len(drew.slots) : drew.slots[i].tier \in {1, 2}}
  ELSE {}

\* The patterns chosen in the slots before slot i.
UsedBefore(i) == {drew.slots[j].def.template : j \in {k \in ContextualSlots : k < i}}

(* -------------------------------- C1 ----------------------------------- *)

Continues(task) ==
  /\ task.templateKey # null
  /\ FindKey(TemplatesOf(task.category), 1, task.templateKey) # NoTemplate
  /\ findWorkflowTemplate(task.templateKey, task.category)
       = FindKey(TemplatesOf(task.category), 1, task.templateKey)
  /\ Len(findWorkflowTemplate(task.templateKey, task.category).followUps) > 0

\* C2: every task of the initial backlog, and every task spawned from it
\* through any chain of completions and tiers, carries a templateKey that
\* resolves in its own category to a template with a non-empty follow-up list.
C2_ChainContinues ==
  \A i \in 1..Len(returned) : Continues(returned[i])

\* At the end of a chain a task spawned by Tier 1 or 2, whose parent Tier 1
\* or 2 spawned too, was linked by the matcher's random fallback.
C2_Witness ==
  /\ depth = MaxDepth
  /\ lineage[Len(lineage)] \in {1, 2}
  /\ \E i \in ContextualSlots :
       /\ Continues(returned[i])
       /\ BestFrom(TemplatesOf(returned[i].category), 1,
                   KeyWords(returned[i].title), NoTemplate, 0).score < 2

(* -------------------------------- C3 ----------------------------------- *)

\* C3: generateInitialTasks returns one task per category, in CATEGORIES
\* order, then 2 to 4 more tasks, all without parent: 10 to 12 tasks.
C3_InitialBacklog ==
  phase = "backlog" =>
    /\ Len(returned) \in 10..12
    /\ \A i \in 1..Len(CATEGORIES) : returned[i].category = CATEGORIES[i].id
    /\ \A i \in 1..Len(returned) :
         /\ returned[i].parentId = NoId
         /\ \E c \in 1..Len(CATEGORIES) : returned[i].category = CATEGORIES[c].id
    /\ \A c \in 1..Len(CATEGORIES) :
         \E i \in 1..Len(returned) : returned[i].category = CATEGORIES[c].id

\* A backlog of 12 tasks whose extra tasks repeat a category.
C3_Witness ==
  /\ phase = "backlog"
  /\ Len(returned) = 12
  /\ \E i \in 9..12 : \E j \in 1..(i - 1) : returned[i].category = returned[j].category

(* -------------------------------- C4 ----------------------------------- *)

\* C4: within one spawnFollowUps call every definition chosen by Tier 1 or
\* Tier 2 is a definition of the handed task's template that no earlier slot
\* of the call chose, so the chosen patterns are pairwise distinct; and a
\* slot that drew a Tier 1 or Tier 2 roll but was filled by a later tier
\* found no unused definition in the tier it left.
C4_NoDefinitionTwice ==
  phase = "spawned" =>
    /\ \A i \in ContextualSlots :
         /\ \E k \in 1..Len(HandedTemplate.followUps) :
              HandedTemplate.followUps[k] = drew.slots[i].def
         /\ drew.slots[i].def.template \notin UsedBefore(i)
    /\ \A i, j \in ContextualSlots :
         i # j => drew.slots[i].def.template # drew.slots[j].def.template
    /\ \A i \in 1..Len(drew.slots) :
         HandedTemplate # NoTemplate =>
           /\ (drew.slots[i].tier # 1 /\ Less(drew.slots[i].roll, 70)) =>
                \A k \in 1..Len(HandedTemplate.followUps) :
                  HandedTemplate.followUps[k].template \in UsedBefore(i)
           /\ (drew.slots[i].tier = 3 /\ Less(drew.slots[i].roll, 90)) =>
                \A k \in 1..Len(HandedTemplate.followUps) :
                  \/ HandedTemplate.followUps[k].template \in UsedBefore(i)
                  \/ HandedTemplate.followUps[k].category = Field(handed, "category", null)

\* The only bridge of sales_proposal went to an earlier slot, Tier 1 took
\* another definition, and a later slot with a Tier 2 roll fell to Tier 3.
C4_Witness ==
  /\ phase = "spawned"
  /\ handed = AcmeTask
  /\ \E i, j, k \in 1..Len(drew.slots) :
       /\ i < k /\ j < k
       /\ drew.slots[i].tier = 2
       /\ drew.slots[j].tier = 1
       /\ drew.slots[k].tier = 3
       /\ Less(drew.slots[k].roll, 90)

(* -------------------------------- C5 ----------------------------------- *)

\* C5: a task produced by Tier 1 or Tier 2 has the context of the completed
\* task, key for key and value for value, hence the context of the task
\* that started its chain of Tier 1 and Tier 2 spawns.
C5_ContextCarried ==
  \A i \in ContextualSlots :
    /\ returned[i].context = Field(handed, "context", <<>>)
    /\ returned[i].context = Field(origin, "context", <<>>)

\* A grandchild by Tier 1 or 2 of a task with a non-empty context, whose own
\* template declares other keys than the context holds.
C5_Witness ==
  /\ depth = MaxDepth
  /\ lineage[Len(lineage)] \in {1, 2}
  /\ origin # handed
  /\ \E i \in ContextualSlots :
       /\ DOMAIN returned[i].context # {}
       /\ \E k \in 1..Len(HandedTemplate.contextKeys) :
            HandedTemplate.contextKeys[k] \notin DOMAIN returned[i].context

(* -------------------------------- C6 ----------------------------------- *)

\* C6: a task built in Tier 1 or Tier 2 from a definition that carries a
\* priority has that priority, whatever the parent's priority and the draws.
C6_OverrideHonored ==
  \A i \in ContextualSlots :
    "priority" \in DOMAIN drew.slots[i].def =>
      returned[i].priority = drew.slots[i].def.priority

\* An override other than the parent's priority was applied.
C6_Witness ==
  \E i \in ContextualSlots :
    /\ "priority" \in DOMAIN drew.slots[i].def
    /\ Field(handed, "priority", null) \notin {null, drew.slots[i].def.priority}
    /\ returned[i].priority = drew.slots[i].def.priority

(* -------------------------------- C7 ----------------------------------- *)

\* The overlap score findBestMatchingTemplate gives template tmpl for title.
Score(title, tmpl) == Overlap(KeyWords(title), KeyWords(tmpl.template))

\* tmpl is what the matcher may return for title in templates: a template
\* of the list, and one no other outscores if any template scores 2 or more.
Matches(tmpl, title, templates) ==
  /\ tmpl # NoTemplate
  /\ \E k \in 1..Len(templates) : templates[k] = tmpl
  /\ (\E k \in 1..Len(templates) : Score(title, templates[k]) >= 2) =>
       /\ Score(title, tmpl) >= 2
       /\ \A k \in 1..Len(templates) : Score(title, templates[k]) <= Score(title, tmpl)

\* C7: for a category with templates findBestMatchingTemplate returns a
\* template of that category, never null: a highest-scoring one when that
\* score is 2 or more, some template of the category otherwise; it returns
\* null exactly when the category has no templates. The template Tier 1 or
\* Tier 2 attaches to a task is such a match for the task's title.
C7_MatcherTotal ==
  /\ phase = "matched" =>
       IF Len(TemplatesOf(handed.category)) = 0
       THEN returned[1] = NoTemplate
       ELSE Matches(returned[1], handed.title, TemplatesOf(handed.category))
  /\ \A i \in ContextualSlots :
       \E k \in 1..Len(TemplatesOf(returned[i].category)) :
         /\ TemplatesOf(returned[i].category)[k].key = returned[i].templateKey
         /\ Matches(TemplatesOf(returned[i].category)[k], returned[i].title,
                    TemplatesOf(returned[i].category))

\* The matcher fell back to a template that shares no key word with the title.
C7_Witness ==
  /\ phase = "matched"
  /\ returned[1] # NoTemplate
  /\ \A k \in 1..Len(TemplatesOf(handed.category)) :
       Score(handed.title, TemplatesOf(handed.category)[k]) < 2
  /\ Score(handed.title, returned[1]) = 0

(* -------------------------------- C8 ----------------------------------- *)

\* The tasks the last call of generateInitialTasks or spawnFollowUps produced.
Produced ==
  IF phase \in {"backlog", "spawned"} THEN {returned[i] : i \in 1..Len(returned)} ELSE {}

\* C8 as stated: every produced task is due strictly after its creation
\* instant and strictly before its creation instant + 14 days.
C8_DueWithinOpenWindow ==
  \A task \in Produced :
    /\ Instant(task.createdAt) < Instant(task.dueDate)
    /\ Instant(task.dueDate) < Instant(task.createdAt) + 14 * DayMs

\* C8: every produced task (from createTask, the fallback, Tier 1 or 2) is
\* due strictly after its creation instant and no later than its creation
\* instant + 14 days; the due date is 1 to 14 whole days after the instant
\* the due-date generator read, which is no later than the creation instant.
C8_DueWithinFortnight ==
  \A task \in Produced :
    /\ Instant(task.createdAt) < Instant(task.dueDate)
    /\ Instant(task.dueDate) <= Instant(task.createdAt) + 14 * DayMs
    /\ \E days \in 1..14, elapsed \in 0..(3 * MaxDt) :
         Instant(task.dueDate) + elapsed = Instant(task.createdAt) + days * DayMs

\* The offset 14 was drawn and both clock reads fell in the same
\* millisecond: the task is due exactly 14 days after its creation.
C8_Witness ==
  \E task \in Produced :
    Instant(task.dueDate) = Instant(task.createdAt) + 14 * DayMs

(* -------------------------------- C9 ----------------------------------- *)

\* The sales_proposal task of Acme Corp was completed, one follow-up was
\* drawn and the tier roll was percent / 100.
AcmeScenario(percent) ==
  /\ phase = "spawned"
  /\ handed = AcmeTask
  /\ drew.count = 1
  /\ drew.slots[1].roll = Forced(percent)

\* C9 as stated: in the Tier 1 scenario (roll 0.3) the single task is in
\* category sales and its title contains "Acme Corp", whichever definition
\* the pick selects.
C9_Tier1StaysInSales ==
  AcmeScenario(30) =>
    /\ Len(returned) = 1
    /\ returned[1].category = "sales"
    /\ Includes(returned[1].title, AcmeCorp)

\* C9: in the Tier 1 scenario (roll 0.3) the single task comes from Tier 1,
\* its title contains "Acme Corp" and its category is the one the selected
\* definition names: sales for three definitions of sales_proposal,
\* operations for "Get legal review on {company} contract terms".
C9_Tier1FollowsDefinition ==
  AcmeScenario(30) =>
    /\ Len(returned) = 1
    /\ drew.slots[1].tier = 1
    /\ Includes(returned[1].title, AcmeCorp)
    /\ returned[1].category = drew.slots[1].def.category
    /\ returned[1].category \in {"sales", "operations"}
    /\ returned[1].category = "operations" <=>
         drew.slots[1].def.template
           = <<"Get", " ", "legal", " ", "review", " ", "on", " ", "{", "company", "}",
               " ", "contract", " ", "terms">>

\* Tier 1 picked the definition that leads to operations.
C9_Witness ==
  /\ AcmeScenario(30)
  /\ drew.slots[1].tier = 1
  /\ returned[1].category = "operations"
  /\ Includes(returned[1].title, AcmeCorp)

(* -------------------------------- C10 ---------------------------------- *)

\* C10: in the Tier 2 scenario (roll 0.8) the task comes from Tier 2, is in
\* category operations and its title contains "Acme Corp"; and every task
\* Tier 2 produces is in another category than the completed task and is
\* built from a definition of the completed task's template that no earlier
\* slot of the call used.
C10_Tier2CrossesCategory ==
  /\ AcmeScenario(80) =>
       /\ Len(returned) = 1
       /\ drew.slots[1].tier = 2
       /\ returned[1].category = "operations"
       /\ Includes(returned[1].title, AcmeCorp)
  /\ \A i \in ContextualSlots :
       drew.slots[i].tier = 2 =>
         /\ returned[i].category # Field(handed, "category", null)
         /\ returned[i].category = drew.slots[i].def.category
         /\ \E k \in 1..Len(HandedTemplate.followUps) :
              HandedTemplate.followUps[k] = drew.slots[i].def
         /\ drew.slots[i].def.template \notin UsedBefore(i)
         /\ returned[i].parentId = handed.id

\* Tier 2 filled a slot after Tier 1 had used another definition, for a
\* template with several definitions that lead to other categories.
C10_Witness ==
  /\ phase = "spawned"
  /\ handed.templateKey = "sales_negotiate"
  /\ \E i, j \in ContextualSlots :
       /\ j < i
       /\ drew.slots[j].tier = 1
       /\ drew.slots[i].tier = 2
       /\ returned[i].category \notin {"sales", returned[j].category}


(* -------------------------------- C11 ---------------------------------- *)

\* value is one generateContextValue(key) can return.
Generated(key, value) ==
  IF key = "q" THEN value \in 1..4
  ELSE IF key = "num" THEN value \in 100..9999
  ELSE IF key = "num2" THEN value \in 10..200
  ELSE IF key \in DOMAIN FILL_DATA
  THEN \E k \in 1..Len(FILL_DATA[key]) : FILL_DATA[key][k] = value
  ELSE value = <<key>>

\* task is what createTask(catId, parentId) builds from template tmpl: its
\* context holds exactly the keys tmpl declares, each with a generated
\* value, and its title is tmpl's pattern filled with that context.
FreshFrom(task, tmpl, catId, parentId) ==
  /\ task.category = catId
  /\ task.parentId = parentId
  /\ task.templateKey = tmpl.key
  /\ DOMAIN task.context = {tmpl.contextKeys[k] : k \in 1..Len(tmpl.contextKeys)}
  /\ \A key \in DOMAIN task.context : Generated(key, task.context[key])
  /\ task.title = fillWithContext(tmpl.template, task.context, Env(<<0, 0, 0>>, 0, 0)).v
  /\ task.completed = FALSE
  /\ task.completedAt = NoDate

\* C11: in the Tier 3 scenario (roll 0.95, same-category bias taken) the
\* single task is the one createTask(parent category, parent id) builds:
\* its category is sales, its parent is the completed task, and its context
\* holds the keys of the sales template it chose with freshly generated
\* values, not the parent's context.
C11_Tier3FreshTask ==
  (AcmeScenario(95) /\ drew.slots[1].catId = "sales") =>
    /\ Len(returned) = 1
    /\ drew.slots[1].tier = 3
    /\ \E k \in 1..Len(TemplatesOf("sales")) :
         FreshFrom(returned[1], TemplatesOf("sales")[k], "sales", handed.id)

\* The fresh task names another company than the parent's context does.
C11_Witness ==
  /\ AcmeScenario(95)
  /\ drew.slots[1].catId = "sales"
  /\ drew.slots[1].tier = 3
  /\ "company" \in DOMAIN returned[1].context
  /\ returned[1].context.company # AcmeCorp
  /\ returned[1].context # handed.context

(* -------------------------------- C12 ---------------------------------- *)

\* task without what it took from the clock: the time in its id, its due
\* date and its creation timestamp.
Timeless(task) ==
  [task EXCEPT !.id = [@ EXCEPT !.time = 0], !.dueDate = NoDate, !.createdAt = NoDate]

IsFallback(task, catId, parentId) ==
  /\ task.title = <<"Complete", " ", "pending", " ", catId, " ", "task">>
  /\ task.category = catId
  /\ task.templateKey = null
  /\ task.context = <<>>
  /\ task.completed = FALSE
  /\ task.parentId = parentId

\* createTask was called with a category id the catalog has no templates for.
CreateOutsideCatalog ==
  /\ phase \in {"created", "threw"}
  /\ handed.categoryId # null
  /\ handed.categoryId \notin DOMAIN WORKFLOW_TEMPLATES

\* C13: createTask called with a category id that has no templates does not
\* throw and returns the fallback task: title "Complete pending <id> task",
\* the category given, templateKey null, empty context, not completed, the
\* parentId given.
C13_FallbackOutsideCatalog ==
  CreateOutsideCatalog =>
    /\ phase = "created"
    /\ Len(returned) = 1
    /\ IsFallback(returned[1], handed.categoryId, handed.parentId)

(* -------------------------------- C14 ---------------------------------- *)

\* spawnFollowUps returned for a task without category.
MissingCategory == phase = "spawned" /\ "category" \notin DOMAIN handed

\* C14 as stated: for a task without category spawnFollowUps returns 1 to 3
\* tasks, and those of Tier 3 come from the fallback path: generic title,
\* no templateKey, empty context.
C14_MissingCategoryFallback ==
  MissingCategory =>
    /\ Len(returned) \in 1..3
    /\ \A i \in 1..Len(returned) :
         drew.slots[i].tier = 3 =>
           /\ returned[i].templateKey = null
           /\ returned[i].context = <<>>

\* C14: for a task without category spawnFollowUps returns 1 to 3 tasks,
\* and those of Tier 3 are ordinary createTask tasks: createTask gets no
\* category id, picks a category of CATEGORIES at random and builds the task
\* from one of its templates, with that templateKey and a fresh context;
\* none is the fallback task.
C14_MissingCategoryRandom ==
  MissingCategory =>
    /\ Len(returned) \in 1..3
    /\ \A i \in 1..Len(returned) :
         drew.slots[i].tier = 3 =>
           /\ drew.slots[i].catId = null
           /\ returned[i].templateKey # null
           /\ \E c \in 1..Len(CATEGORIES) :
                \E k \in 1..Len(TemplatesOf(CATEGORIES[c].id)) :
                  FreshFrom(returned[i], TemplatesOf(CATEGORIES[c].id)[k],
                            CATEGORIES[c].id, handed.id)

\* A Tier 3 task for a task without category: an ordinary task of a
\* category picked at random, after a Tier 1 task in the same call.
C14_Witness ==
  /\ MissingCategory
  /\ \E i, j \in 1..Len(returned) :
       /\ drew.slots[j].tier = 1
       /\ drew.slots[i].tier = 3
       /\ returned[i].category \notin {"sales", "marketing"}
       /\ returned[i].templateKey # null
       /\ DOMAIN returned[i].context # {}

(* -------------------------------- C15 ---------------------------------- *)

\* findWorkflowTemplate was called.
Looked == phase \in {"found", "threw"} /\ "templateKey" \in DOMAIN handed

\* The templates of the whole catalog that have the key.
WithKey(templateKey) ==
  {t \in UNION { {TemplatesOf(CATEGORIES[c].id)[k] :
                     k \in 1..Len(TemplatesOf(CATEGORIES[c].id))} :
                   c \in 1..Len(CATEGORIES) } : t.key = templateKey}

\* C15: for every key of the catalog and every category hint (the owning
\* category, another one, an unknown or a missing one) findWorkflowTemplate
\* returns the one template with that key, whatever the hint; for a key that
\* is null or not in the catalog it returns null; it never throws.
C15_FoundWhateverHint ==
  Looked =>
    /\ phase = "found"
    /\ Len(returned) = 1
    /\ IF WithKey(handed.templateKey) = {} THEN returned[1] = NoTemplate
       ELSE WithKey(handed.templateKey) = {returned[1]}

(* -------------------------------- C16 ---------------------------------- *)

\* createTask was called with a category id of CATEGORIES or with none.
CreateInCatalog ==
  /\ phase \in {"created", "threw"}
  /\ "categoryId" \in DOMAIN handed
  /\ \/ handed.categoryId = null
     \/ \E c \in 1..Len(CATEGORIES) : CATEGORIES[c].id = handed.categoryId

\* C16: each of the 8 category ids of CATEGORIES has templates, so
\* createTask called with one of them, or with none, returns a task of that
\* category (of some category of CATEGORIES when none is given) whose
\* templateKey is the key of a template of the task's category, never the
\* fallback task.
C16_CatalogCoversCategories ==
  /\ Len(CATEGORIES) = 8
  /\ \A c \in 1..Len(CATEGORIES) : Len(TemplatesOf(CATEGORIES[c].id)) > 0
  /\ CreateInCatalog =>
       /\ phase = "created"
       /\ returned[1].templateKey # null
       /\ handed.categoryId # null => returned[1].category = handed.categoryId
       /\ \E c \in 1..Len(CATEGORIES) : CATEGORIES[c].id = returned[1].category
       /\ \E k \in 1..Len(TemplatesOf(returned[1].category)) :
            FreshFrom(returned[1], TemplatesOf(returned[1].category)[k],
                      returned[1].category, handed.parentId)

\* createTask without id took the last category and its last template.
C16_Witness ==
  /\ CreateInCatalog
  /\ phase = "created"
  /\ handed.categoryId = null
  /\ returned[1].category = CATEGORIES[Len(CATEGORIES)].id
  /\ returned[1].templateKey
       = TemplatesOf(returned[1].category)[Len(TemplatesOf(returned[1].category))].key

(* -------------------------------- C17 ---------------------------------- *)

\* The keys declared by the template the task's templateKey resolves to.
Declared(task) ==
  {findWorkflowTemplate(task.templateKey, task.category).contextKeys[k] :
     k \in 1..Len(findWorkflowTemplate(task.templateKey, task.category).contextKeys)}

Fresh(key) ==
  IF key \in NumericKeys \/ key \notin DOMAIN FILL_DATA THEN {}
  ELSE {FILL_DATA[key][k] : k \in 1..Len(FILL_DATA[key])}

\* title from chunk j on is template from chunk i on with every token
\* replaced: by the context's value when the context has the key, by a
\* generated value otherwise, by the key's name when nothing generates it.
RECURSIVE Resolves(_, _, _, _, _)
Resolves(template, i, context, title, j) ==
  IF i > Len(template) THEN j = Len(title) + 1
  ELSE IF /\ template[i] = "{"
          /\ i + 2 <= Len(template)
          /\ template[i + 2] = "}"
  THEN IF template[i + 1] \in DOMAIN context
       THEN /\ j + Len(String(template[i + 1], context[template[i + 1]])) - 1 <= Len(title)
            /\ SubSeq(title, j, j + Len(String(template[i + 1], context[template[i + 1]])) - 1)
                 = String(template[i + 1], context[template[i + 1]])
            /\ Resolves(template, i + 3, context, title,
                        j + Len(String(template[i + 1], context[template[i + 1]])))
       ELSE IF template[i + 1] \in NumericKeys
       THEN /\ j <= Len(title)
            /\ \E n \in 1..9999 : Generated(template[i + 1], n) /\ title[j] = ToString(n)
            /\ Resolves(template, i + 3, context, title, j + 1)
       ELSE IF template[i + 1] \in DOMAIN FILL_DATA
       THEN \E value \in Fresh(template[i + 1]) :
              /\ j + Len(value) - 1 <= Len(title)
              /\ SubSeq(title, j, j + Len(value) - 1) = value
              /\ Resolves(template, i + 3, context, title, j + Len(value))
       ELSE /\ j <= Len(title)
            /\ title[j] = template[i + 1]
            /\ Resolves(template, i + 3, context, title, j + 1)
  ELSE /\ j <= Len(title)
       /\ title[j] = template[i]
       /\ Resolves(template, i + 1, context, title, j + 1)

\* C18: for every catalog pattern and every context, complete, empty or
\* lacking keys, fillWithContext returns a title without any {key} token:
\* a token whose key the context has is replaced by the context's value, any
\* other token by a freshly generated value, and a token whose key the
\* generator does not know by the key's name.
C18_TitleResolves ==
  phase = "filled" =>
    /\ \A j \in 1..Len(returned[1]) : returned[1][j] \notin {"{", "}"}
    /\ Resolves(handed.template, 1, handed.context, returned[1], 1)

\* One token was filled from the context, one with a generated value and
\* one with its key's name.
C18_Witness ==
  /\ phase = "filled"
  /\ \E i \in 1..Len(handed.template) : handed.template[i] = "widget"
  /\ "company" \in DOMAIN handed.context
  /\ "month" \notin DOMAIN handed.context
  /\ Includes(returned[1], handed.context.company)
  /\ Includes(returned[1], <<"widget", " ", "for">>)
  /\ \E value \in Fresh("month") : Includes(returned[1], <<"in", " ">> \o value)

(* -------------------------------- C19 ---------------------------------- *)

\* spawnFollowUps returned for a task whose templateKey is null or names no
\* template of the catalog.
Unresolved ==
  /\ phase = "spawned"
  /\ WithKey(Field(handed, "templateKey", null)) = {}

\* C19: when the completed task's templateKey is null or names no template
\* of the catalog, every slot is filled by Tier 3, whatever its roll: each
\* task comes from createTask, called with the completed task's category or
\* with none (a random category), and its context is built afresh, not
\* copied from the parent.
C19_UnresolvedGoesFresh ==
  Unresolved =>
    \A i \in 1..Len(returned) :
      /\ drew.slots[i].tier = 3
      /\ drew.slots[i].def = NoDef
      /\ drew.slots[i].catId \in {null, Field(handed, "category", null)}
      /\ IF drew.slots[i].catId # null /\ Len(TemplatesOf(drew.slots[i].catId)) = 0
         THEN IsFallback(returned[i], drew.slots[i].catId, handed.id)
         ELSE /\ drew.slots[i].catId # null => returned[i].category = drew.slots[i].catId
              /\ \E k \in 1..Len(TemplatesOf(returned[i].category)) :
                   FreshFrom(returned[i], TemplatesOf(returned[i].category)[k],
                             returned[i].category, handed.id)

\* A task with a templateKey the catalog lacks drew a Tier 1 roll and a
\* Tier 2 roll; both slots went to Tier 3, one to another category.
C19_Witness ==
  /\ Unresolved
  /\ Field(handed, "templateKey", null) # null
  /\ \E i, j \in 1..Len(returned) :
       /\ Less(drew.slots[i].roll, 70)
       /\ ~Less(drew.slots[j].roll, 70) /\ Less(drew.slots[j].roll, 90)
       /\ drew.slots[i].tier = 3
       /\ drew.slots[j].tier = 3
       /\ returned[i].context # handed.context
       /\ \E k \in {i, j} : returned[k].category # handed.category

(* -------------------------------- C20 ---------------------------------- *)

\* The definitions of the handed task's template still unused at slot i,
\* and those among them that lead to another category.
Unused(i) ==
  {HandedTemplate.followUps[k] : k \in 1..Len(HandedTemplate.followUps)}
    \ {f \in {HandedTemplate.followUps[k] : k \in 1..Len(HandedTemplate.followUps)} :
         f.template \in UsedBefore(i)}

UnusedAcross(i) == {f \in Unused(i) : f.category # Field(handed, "category", null)}

\* C20: within a slot the tiers are tried in the order 1, 2, 3 and never
\* backwards.  With a roll below 0.70 the slot is Tier 1's unless no
\* definition is unused, and then Tier 2's or Tier 3's; with a roll from 0.70
\* to below 0.90 it is never Tier 1's, it is Tier 2's when an unused
\* definition leads to another category and Tier 3's otherwise, even if
\* unused definitions of the same category remain; with a roll of 0.90 or
\* more it is Tier 3's.
C20_TiersInOrder ==
  (phase = "spawned" /\ HandedTemplate # NoTemplate) =>
    \A i \in 1..Len(drew.slots) :
      IF Less(drew.slots[i].roll, 70)
      THEN IF Unused(i) # {} THEN drew.slots[i].tier = 1
           ELSE drew.slots[i].tier = 3
      ELSE IF Less(drew.slots[i].roll, 90)
      THEN IF UnusedAcross(i) # {} THEN drew.slots[i].tier = 2
           ELSE drew.slots[i].tier = 3
      ELSE drew.slots[i].tier = 3

\* Two rolls between 0.70 and 0.90: the first slot took the only definition
\* that leads to another category, the second fell to Tier 3 although
\* definitions of the same category were unused.
C20_Witness ==
  /\ phase = "spawned"
  /\ HandedTemplate # NoTemplate
  /\ \E i, j \in 1..Len(drew.slots) :
       /\ i < j
       /\ ~Less(drew.slots[i].roll, 70) /\ Less(drew.slots[i].roll, 90)
       /\ ~Less(drew.slots[j].roll, 70) /\ Less(drew.slots[j].roll, 90)
       /\ drew.slots[i].tier = 2
       /\ drew.slots[j].tier = 3
       /\ Unused(j) # {}
       /\ UnusedAcross(j) = {}

(* -------------------------------- C21 ---------------------------------- *)

\* The overlap scores of the templates of a list for a title, in list order.
ScoresOf(title, templates) ==
  [k \in 1..Len(templates) |-> Score(title, templates[k])]

\* Position k holds the highest of the scores, and no earlier position does.
IsFirstTop(scores, k) ==
  /\ \A j \in DOMAIN scores : scores[j] <= scores[k]
  /\ \A j \in 1..(k - 1) : scores[j] < scores[k]

\* tmpl is the first template of the list, in declared order, with the
\* highest score, whenever that score is 2 or more.
FirstTopIs(tmplKey, scores, templates) ==
  \A k \in DOMAIN scores :
    (scores[k] >= 2 /\ IsFirstTop(scores, k)) => templates[k].key = tmplKey

\* Two or more templates of the list share the highest score, 2 or more.
TiedAtTop(scores) ==
  \E k \in DOMAIN scores :
    /\ scores[k] >= 2
    /\ IsFirstTop(scores, k)
    /\ \E j \in DOMAIN scores : j > k /\ scores[j] = scores[k]

\* C21: when the highest overlap score among the category's templates is 2
\* or more, findBestMatchingTemplate returns the first template, in the
\* category's declared order, that reaches it; the template Tier 1 or
\* Tier 2 attaches to a task is chosen the same way.
C21_FirstHighestWins ==
  /\ (phase = "matched" /\ returned[1] # NoTemplate) =>
       FirstTopIs(returned[1].key,
                  ScoresOf(handed.title, TemplatesOf(handed.category)),
                  TemplatesOf(handed.category))
  /\ \A i \in ContextualSlots :
       FirstTopIs(returned[i].templateKey,
                  ScoresOf(returned[i].title, TemplatesOf(returned[i].category)),
                  TemplatesOf(returned[i].category))

\* Several templates tie at the highest score, and the first one is returned.
C21_Witness ==
  /\ phase = "matched"
  /\ returned[1] # NoTemplate
  /\ TiedAtTop(ScoresOf(handed.title, TemplatesOf(handed.category)))
  /\ FirstTopIs(returned[1].key,
                ScoresOf(handed.title, TemplatesOf(handed.category)),
                TemplatesOf(handed.category))

(* -------------------------------- C22 ---------------------------------- *)

\* A pattern without the key names of its placeholders, scanning from chunk i.
RECURSIVE LiteralFrom(_, _, _)
LiteralFrom(template, i, literal) ==
  IF i > Len(template) THEN literal
  ELSE IF /\ template[i] = "{"
          /\ i + 2 <= Len(template)
          /\ IsWord(template[i + 1])
          /\ template[i + 2] = "}"
  THEN LiteralFrom(template, i + 3, Append(literal, " "))
  ELSE LiteralFrom(template, i + 1, Append(literal, template[i]))

\* The score a template would get if the matcher ignored its placeholders.
LiteralScore(title, tmpl) ==
  Overlap(KeyWords(title), KeyWords(LiteralFrom(tmpl.template, 1, <<>>)))

\* C22 as stated: the key names of a pattern's placeholders are not among
\* its tokens, so every template's score is the overlap of the title with
\* the literal words of the pattern only.
C22_PlaceholdersIgnored ==
  phase = "matched" =>
    \A k \in 1..Len(TemplatesOf(handed.category)) :
      Score(handed.title, TemplatesOf(handed.category)[k])
        = LiteralScore(handed.title, TemplatesOf(handed.category)[k])

\* The matcher links a title to a template by a score of 2 that counts the
\* key name of a placeholder; the literal words alone score below 2 for
\* every template of the category.
C22_LinkedByPlaceholderName ==
  /\ phase = "matched"
  /\ returned[1] # NoTemplate
  /\ Score(handed.title, returned[1]) >= 2
  /\ \A k \in 1..Len(TemplatesOf(handed.category)) :
       LiteralScore(handed.title, TemplatesOf(handed.category)[k]) < 2

(* -------------------------------- C23 ---------------------------------- *)

\* The weighted distribution: the priority a roll k / Grid maps to.
Weighted(k) ==
  IF k * 100 < 10 * Grid THEN "critical"
  ELSE IF k * 100 < 35 * Grid THEN "high"
  ELSE IF k * 100 < 75 * Grid THEN "medium"
  ELSE "low"

\* The decision order of the claim, read off the draws from e on: the
\* override; else the parent's priority when the inheritance draw is below
\* 0.4; else the weighted draw that follows.
Decided(override, parentPri, e) ==
  IF override # null THEN override
  ELSE IF parentPri # null /\ Random(e) * 100 < 40 * Grid THEN parentPri
  ELSE IF parentPri # null THEN Weighted(Random(Drawn(e)))
  ELSE Weighted(Random(e))

\* The override of the definition slot i chose, null when it has none.
OverrideOf(i) ==
  IF drew.slots[i].def # NoDef /\ "priority" \in DOMAIN drew.slots[i].def
  THEN drew.slots[i].def.priority ELSE null

\* The environment in which slot i's task had its priority selected. Tier 1
\* and 2: after the roll, the pick of the definition and the filling of the
\* title. Tier 3: createTask draws once more after it, for the due date.
PriorityEnv(i) ==
  IF drew.slots[i].tier \in {1, 2}
  THEN fillWithContext(drew.slots[i].def.template, Field(handed, "context", <<>>),
                       Drawn(Drawn(drew.slots[i].at))).e
  ELSE [drew.slots[i].end EXCEPT !.pos = @ - 2]

\* The slots of the last spawnFollowUps call.
SpawnedSlots ==
  IF phase = "spawned" /\ drew # NoSpawn THEN 1..Len(drew.slots) ELSE {}

\* C23 as stated: in every tier the priority follows the override, then the
\* inheritance draw, then the weighted draw.
C23_PriorityOrderAnyTier ==
  \A i \in SpawnedSlots :
    returned[i].priority
      = Decided(OverrideOf(i), Field(handed, "priority", null), PriorityEnv(i))

\* C23: a Tier 1 or Tier 2 task takes the override of its definition, else
\* the parent's priority when the inheritance draw is below 0.4, else the
\* weighted draw; a Tier 3 task has neither override nor inheritance, its
\* priority is the weighted draw alone.
C23_PriorityOrder ==
  \A i \in SpawnedSlots :
    returned[i].priority
      = IF drew.slots[i].tier \in {1, 2}
        THEN Decided(OverrideOf(i), Field(handed, "priority", null), PriorityEnv(i))
        ELSE Weighted(Random(PriorityEnv(i)))

\* One call gives a Tier 1 or 2 task that took the weighted draw and a
\* Tier 3 task whose draw is below 0.4 and whose priority is not the
\* parent's.
C23_Witness ==
  /\ \E i \in SpawnedSlots :
       /\ drew.slots[i].tier \in {1, 2}
       /\ OverrideOf(i) = null
       /\ Random(PriorityEnv(i)) * 100 >= 40 * Grid
       /\ returned[i].priority # handed.priority
  /\ \E i \in SpawnedSlots :
       /\ drew.slots[i].tier = 3
       /\ Random(PriorityEnv(i)) * 100 < 40 * Grid
       /\ returned[i].priority # handed.priority

(* -------------------------------- C25 ---------------------------------- *)

\* A task in the Active state.
Active(task) == task.completed = FALSE /\ task.completedAt = NoDate

\* C25: every task spawnFollowUps returns, whatever tier produced it, is
\* Active and has the completed task's id as parentId; the tasks of
\* generateInitialTasks and createTask are Active too.
C25_SpawnedActiveWithParent ==
  /\ \A i \in SpawnedSlots :
       /\ Active(returned[i])
       /\ returned[i].parentId = Field(handed, "id", NoId)
  /\ phase \in {"backlog", "created"} =>
       \A i \in 1..Len(returned) : Active(returned[i])

\* One call filled slots from all three tiers.
C25_Witness ==
  /\ phase = "spawned"
  /\ Field(handed, "id", NoId) # NoId
  /\ \A tier \in 1..3 : \E i \in SpawnedSlots : drew.slots[i].tier = tier

(* -------------------------------- C26 ---------------------------------- *)

\* The distinct patterns among a template's follow-up definitions: what
\* usedTemplates tells apart.
PatternsIn(tmpl) == {tmpl.followUps[k].template : k \in 1..Len(tmpl.followUps)}

\* C26: every template of the catalog has at least 4 follow-up definitions
\* with at least 3 distinct patterns, a call fills at most 3 slots, and so
\* for a completed task whose template resolves every slot with a roll
\* below 0.70 finds an unused definition and yields a Tier 1 task.
C26_PoolNeverExhausted ==
  /\ \A c \in 1..Len(CATEGORIES) :
       \A k \in 1..Len(TemplatesOf(CATEGORIES[c].id)) :
         /\ Len(TemplatesOf(CATEGORIES[c].id)[k].followUps) >= 4
         /\ Cardinality(PatternsIn(TemplatesOf(CATEGORIES[c].id)[k])) >= 3
  /\ (phase = "spawned" /\ HandedTemplate # NoTemplate) =>
       /\ drew.count \in 1..3
       /\ Len(drew.slots) = drew.count
       /\ \A i \in 1..Len(drew.slots) :
            Less(drew.slots[i].roll, 70) =>
              /\ Unused(i) # {}
              /\ drew.slots[i].tier = 1
              /\ returned[i] # NoTask

\* Three slots, all with a roll below 0.70: the third Tier 1 task is built
\* after two definitions of the pool were used.
C26_Witness ==
  /\ phase = "spawned"
  /\ HandedTemplate # NoTemplate
  /\ Len(drew.slots) = 3
  /\ \A i \in 1..3 : Less(drew.slots[i].roll, 70) /\ drew.slots[i].tier = 1
  /\ Cardinality(UsedBefore(3)) = 2

(* -------------------------------- C27 ---------------------------------- *)

\* The keys of the {placeholder} tokens of a pattern.
Placeholders(template) ==
  {template[i + 1] : i \in {j \in 1..(Len(template) - 2) :
                             /\ template[j] = "{"
                             /\ IsWord(template[j + 1])
                             /\ template[j + 2] = "}"}}

\* C27 as stated: along every chain from the initial backlog, each pattern
\* Tier 1 or Tier 2 chooses has only placeholders that are keys of the
\* parent's context, so no value of the title is generated anew.
C27_OnlyCarriedValues ==
  \A i \in ContextualSlots :
    Placeholders(drew.slots[i].def.template)
      \subseteq DOMAIN Field(handed, "context", <<>>)

\* A grandchild by Tier 1 or 2 whose title holds a value generated anew for
\* a placeholder its parent's context lacks.
C27_RegeneratedInChain ==
  /\ depth >= 2
  /\ \E i \in ContextualSlots :
       ~(Placeholders(drew.slots[i].def.template)
           \subseteq DOMAIN Field(handed, "context", <<>>))

(* -------------------------------- C28 ---------------------------------- *)

\* Every handler started has run to its end.
AllDone ==
  /\ handlers # <<>>
  /\ \A h \in 1..Len(handlers) : handlers[h].pc = "done"

\* No two handlers were started for the same task.
DistinctTasks ==
  \A g, h \in 1..Len(handlers) : g # h => handlers[g].task # handlers[h].task

\* The ids of all tasks the spawnFollowUps calls returned.
SpawnedIds == UNION {TaskIds(calls[c].newTasks) : c \in 1..Len(calls)}

\* C28 as stated: once the handlers of different tasks have all finished,
\* overlapping or not, none of the completed tasks is in the list in memory
\* or in storage, and every task spawnFollowUps returned is in both.
C28_ExactlyCompletedRemoved ==
  (AllDone /\ DistinctTasks) =>
    /\ \A h \in 1..Len(handlers) :
         /\ handlers[h].task \notin TaskIds(tasks)
         /\ handlers[h].task \notin TaskIds(storage.vantage_tasks)
    /\ SpawnedIds \subseteq TaskIds(tasks)
    /\ SpawnedIds \subseteq TaskIds(storage.vantage_tasks)

\* Two overlapping completions of different tasks have finished: one of the
\* completed tasks is still in the stored list and a spawned task is not.
C28_WrongTaskRemoved ==
  /\ AllDone
  /\ DistinctTasks
  /\ Len(handlers) = 2
  /\ \E h \in 1..Len(handlers) :
       /\ handlers[h].task \in TaskIds(tasks)
       /\ handlers[h].task \in TaskIds(storage.vantage_tasks)
  /\ ~(SpawnedIds \subseteq TaskIds(storage.vantage_tasks))

(* -------------------------------- C29 ---------------------------------- *)

\* C29 as stated: whatever the clicks and the interleaving, spawnFollowUps
\* is called and a completion recorded at most once per task id.
C29_CompletedAtMostOnce ==
  \A c, d \in 1..Len(calls) : c # d => calls[c].task # calls[d].task

\* A task was completed twice: its card was rendered anew, with a checkbox
\* that is not "completing", while its first handler was still waiting, and
\* both completions are in the stored statistics.
C29_CompletedTwice ==
  /\ AllDone
  /\ \E c, d \in 1..Len(calls) : c # d /\ calls[c].task = calls[d].task
  /\ storage.vantage_stats.totalCompleted = Len(handlers)
  /\ Len(handlers) > Cardinality({handlers[h].task : h \in 1..Len(handlers)})

(* -------------------------------- C30 ---------------------------------- *)

\* C30 as stated: once all handlers have finished, the stored statistics
\* count every completion and every spawned task, and the longest streak is
\* at least the streak.
C30_NoCompletionLost ==
  AllDone =>
    /\ storage.vantage_stats.totalCompleted = Len(calls)
    /\ storage.vantage_stats.totalSpawned = SpawnedFrom(calls, 1)
    /\ storage.vantage_stats.longestStreak >= storage.vantage_stats.streak

\* Two completions of different tasks have finished and the stored
\* statistics count one.
C30_LostUpdate ==
  /\ AllDone
  /\ DistinctTasks
  /\ Len(handlers) = 2
  /\ storage.vantage_stats.totalCompleted = 1
  /\ storage.vantage_stats.totalSpawned < SpawnedFrom(calls, 1)

(* -------------------------------- C24 ---------------------------------- *)

\* The fields of a task other than those the caller flips on completion.
Unflipped(task) == DOMAIN task \ {"completed", "completedAt", "context"}

====
